---- MODULE Spec2Model ----
(***************************************************************************)
(* State-machine model of the douyin-downloader core:                      *)
(*   - withRetry            (src/src/utils/retry.ts)                        *)
(*   - processBatch         (src/src/utils/retry.ts, on PromisePool)        *)
(*   - fetchUserVideos      (src/src/douyin/info/user.ts)                   *)
(*   - downloadVideo /      (video-downloader.ts, utils/file.ts,            *)
(*     downloadFile /        utils/fetch.ts)                                *)
(*     enhancedFetch                                                        *)
(*   - resolveLink /        (src/src/douyin/parser/resolve-links.ts,        *)
(*     resolveShortUrl       link-patterns in parse-batch.ts)               *)
(*   - extractDouyinLinks   (src/src/douyin/parser/extractDouyinLinks.ts    *)
(*                           and extract-links in parse-batch.ts)           *)
(*   - the info batch      (src/src/douyin/info/user.ts:324-381 and       *)
(*     processor             fetch-video-detail.ts)                         *)
(*   - downloadBatch        (download-manager.ts in src/unnamed/part_008)   *)
(* Each component has its own specification (SpecRetry, SpecBatch,         *)
(* SpecFetch, SpecDownload, SpecDownloadLive, SpecResolve, SpecExtract,    *)
(* SpecInfo, SpecDownloadBatch); the variables of the other components     *)
(* stay at their idle values.                                              *)
(***************************************************************************)
EXTENDS Integers, Sequences, FiniteSets, TLC

VARIABLES
  \* ---- withRetry (one call) ----
  wr_pc,          \* "calling" | "delay" | "returned" | "thrown"
  wr_retries,     \* options.retries
  wr_accept,      \* the messages shouldRetry accepts
  wr_attempt,     \* let attempt
  wr_lastError,   \* let lastError
  wr_calls,       \* number of invocations of fn so far
  wr_thrownBy,    \* the values the invocations of fn threw, in order
  wr_onRetry,     \* the attempt numbers passed to onRetry, in order
  \* ---- processBatch (one call) ----
  pb_pc,          \* "pool" | "returned"
  pb_total,       \* items.length
  pb_concurrency, \* options.concurrency
  pb_retries,     \* options.retries
  pb_status,      \* per item: "pending"|"running"|"delay"|"ok"|"failed"
  pb_attempt,     \* per item: withRetry's attempt
  pb_completed,   \* let completed
  pb_allErrors,   \* const allErrors (item indexes whose error was collected)
  pb_results,     \* PromisePool results (item indexes, completion order)
  pb_poolErrors,  \* PromisePool errors
  pb_progress,    \* the calls of onProgress: <<completed, total, Len(allErrors)>>
  pb_out,         \* the returned {results, errors}
  \* ---- fetchUserVideos (one call) ----
  fv_pc,          \* "page" | "retryDelay" | "delay" | "returned" | "thrown"
  fv_limit,       \* limit
  fv_cursor,      \* let cursor
  fv_hasMore,     \* let hasMore
  fv_results,     \* const results (serial numbers of the items)
  fv_attempt,     \* fetchWithRetry's attempt for the page in flight
  fv_pages,       \* number of fetchUserVideoPage calls so far
  fv_lastPage,    \* the last answer of the upstream and the cursor it answered
  fv_served,      \* number of items the upstream has served so far
  \* ---- downloadVideo (one call, with its recursion on fallback URLs) ----
  dv_pc,          \* "start"|"fetching"|"efDelay"|"streaming"|"stalled"|
                  \* "retryDelay"|"returned"|"thrown"
  dv_opts,        \* options: retries, checkExisting, overwrite
  dv_urls,        \* videoInfo.videoPlayUrl followed by downloadUrls
  dv_urlIdx,      \* the URL of dv_urls the current invocation downloads
  dv_attempt,     \* withRetry's attempt (video-downloader.ts:146)
  dv_efAttempt,   \* enhancedFetch's attempt (fetch.ts:61)
  dv_file,        \* finalPath: "absent" | "existing" | "partial" | "complete"
  dv_file0,       \* finalPath when downloadVideo was called
  dv_written,     \* chunks written by the downloadFile call in progress
  dv_calls,       \* per URL: calls of downloadFile
  dv_requests,    \* HTTP requests sent for the current URL
  dv_unlinkFailed,\* the last fs.unlink(finalPath) failed
  dv_lastFail,    \* cause of the last failed HTTP request or body read
  \* ---- resolveLink (one call, with its call of resolveShortUrl) ----
  rl_pc,          \* "start"|"fetching"|"efDelay"|"retryDelay"|"fetching2"|
                  \* "efDelay2"|"returned"|"thrown"
  rl_url,         \* url (resolveLink), shortUrl (resolveShortUrl)
  rl_retries,     \* options.retries
  rl_attempt,     \* withRetry's attempt (resolve-links.ts:39)
  rl_efAttempt,   \* enhancedFetch's attempt (fetch.ts:61)
  rl_requests,    \* HTTP requests sent for shortUrl
  rl_finalUrl,    \* const finalUrl (resolve-links.ts:39), NoUrl before
  rl_short,       \* what resolveShortUrl returned, NoUrl before
  rl_result,      \* what resolveLink returned
  \* ---- extractDouyinLinks (both implementations, on one text) ----
  xl_text,        \* text: its lines, each one URL or other text
  xl_i,           \* extractDouyinLinks.ts:49  index of the pattern in turn
  xl_results,     \* extractDouyinLinks.ts:48  const results
  xl_pc,          \* extractDouyinLinks.ts: "loop" | "returned"
  xl_uniqueUrls,  \* extract-links: const uniqueUrls
  xl_combined,    \* extract-links: the call has returned
  \* ---- the info batch processor (one call) ----
  ib_pc,          \* "loop" | "awaiting" | "returned"
  ib_total,       \* videoUrls.length
  ib_concurrency, \* options.concurrency as the caller passed it (0: not given)
  ib_onProgress,  \* options.onProgress is given
  ib_index,       \* user.ts:344  let index (counted from 1)
  ib_attempt,     \* withRetry's attempt for the URL in turn
  ib_running,     \* the URLs whose fetchVideoDetail is running on the page
  ib_calls,       \* per URL, the number of fetchVideoDetail calls so far
  ib_results,     \* user.ts:341  const results: "info" or "null" per URL
  ib_progress,    \* the first arguments passed to onProgress, in order
  ib_out,         \* what the call returned (validResults)
  \* ---- downloadBatch (one call, its workers on one file system) ----
  db_pc,          \* "running" | "returned"
  db_opts,        \* concurrency, retries, checkExisting, overwrite, onBatchProgress
  db_path,        \* per video, the destination path its finalPath resolves to
  db_cdn,         \* per video, the number of cdnPlayUrls it carries
  db_file,        \* per path: "absent" | "partial" | "complete"
  db_w,           \* per video: "queued" | "writing" | "retryDelay" | "settled" | "done"
  db_attempt,     \* per video, withRetry's attempt inside downloadVideo
  db_tried,       \* per video, the number of source URLs downloadFile was given
  db_result,      \* per video: "none" | "success" | "failed"
  db_progressMap, \* the keys of progressMap
  db_completed,   \* processBatch's completed
  db_current,     \* the last `current` passed to onBatchProgress, 0 before
  db_out          \* the results downloadBatch returned

wrVars == <<wr_pc, wr_retries, wr_accept, wr_attempt, wr_lastError, wr_calls,
            wr_thrownBy, wr_onRetry>>
pbVars == <<pb_pc, pb_total, pb_concurrency, pb_retries, pb_status, pb_attempt,
            pb_completed, pb_allErrors, pb_results, pb_poolErrors, pb_progress,
            pb_out>>
fvVars == <<fv_pc, fv_limit, fv_cursor, fv_hasMore, fv_results, fv_attempt,
            fv_pages, fv_lastPage, fv_served>>
dvVars == <<dv_pc, dv_opts, dv_urls, dv_urlIdx, dv_attempt, dv_efAttempt,
            dv_file, dv_file0, dv_written, dv_calls, dv_requests,
            dv_unlinkFailed, dv_lastFail>>
rlVars == <<rl_pc, rl_url, rl_retries, rl_attempt, rl_efAttempt, rl_requests,
            rl_finalUrl, rl_short, rl_result>>
xlVars == <<xl_text, xl_i, xl_results, xl_pc, xl_uniqueUrls, xl_combined>>
ibVars == <<ib_pc, ib_total, ib_concurrency, ib_onProgress, ib_index,
            ib_attempt, ib_running, ib_calls, ib_results, ib_progress, ib_out>>
dbVars == <<db_pc, db_opts, db_path, db_cdn, db_file, db_w, db_attempt,
            db_tried, db_result, db_progressMap, db_completed, db_current,
            db_out>>
vars == <<wrVars, pbVars, fvVars, dvVars, rlVars, xlVars, ibVars, dbVars>>

\* ------------------------------------------------------------------------
\* Bounds of the model
\* ------------------------------------------------------------------------
MaxRetries == 2
MaxItems == 3
MaxConcurrency == 2
MaxLimit == 2
MaxCursor == 1
MaxPageItems == 2
MaxServed == 3
MaxPageRequests == 101
MaxUrls == 2
MaxChunks == 2
MaxIdLen == 2
MaxLines == 2
MaxInfoUrls == 3
MaxVideos == 2
MaxPaths == 2
MaxCdn == 1
MaxBatchRetries == 1

\* ------------------------------------------------------------------------
\* Idle values of the components a specification does not run
\* ------------------------------------------------------------------------
NoError == [isError |-> TRUE, msg |-> "Unknown error during retry"]

wrIdle ==
  /\ wr_pc = "idle" /\ wr_retries = 0 /\ wr_accept = {} /\ wr_attempt = 0
  /\ wr_lastError = NoError /\ wr_calls = 0 /\ wr_thrownBy = <<>>
  /\ wr_onRetry = <<>>

pbIdle ==
  /\ pb_pc = "idle" /\ pb_total = 0 /\ pb_concurrency = 0 /\ pb_retries = 0
  /\ pb_status = <<>> /\ pb_attempt = <<>> /\ pb_completed = 0
  /\ pb_allErrors = <<>> /\ pb_results = <<>> /\ pb_poolErrors = <<>>
  /\ pb_progress = <<>> /\ pb_out = [results |-> <<>>, errors |-> <<>>]

fvIdle ==
  /\ fv_pc = "idle" /\ fv_limit = 0 /\ fv_cursor = 0 /\ fv_hasMore = TRUE
  /\ fv_results = <<>> /\ fv_attempt = 0 /\ fv_pages = 0
  /\ fv_lastPage = [kind |-> "none"] /\ fv_served = 0

dvIdle ==
  /\ dv_pc = "idle" /\ dv_opts = [retries |-> 0] /\ dv_urls = <<>>
  /\ dv_urlIdx = 0 /\ dv_attempt = 0 /\ dv_efAttempt = 0 /\ dv_file = "absent"
  /\ dv_file0 = "absent" /\ dv_written = 0 /\ dv_calls = <<>>
  /\ dv_requests = 0 /\ dv_unlinkFailed = FALSE /\ dv_lastFail = "none"

\* a URL that is not there: null, or not yet assigned
NoUrl == [form |-> "none", seg |-> <<>>]

\* resolveLink's null
NullResult == [isNull |-> TRUE]

rlIdle ==
  /\ rl_pc = "idle" /\ rl_url = NoUrl /\ rl_retries = 0 /\ rl_attempt = 0
  /\ rl_efAttempt = 0 /\ rl_requests = 0 /\ rl_finalUrl = NoUrl
  /\ rl_short = NoUrl /\ rl_result = NullResult

xlIdle ==
  /\ xl_text = <<>> /\ xl_i = 0 /\ xl_results = <<>> /\ xl_pc = "idle"
  /\ xl_uniqueUrls = <<>> /\ xl_combined = FALSE

ibIdle ==
  /\ ib_pc = "idle" /\ ib_total = 0 /\ ib_concurrency = 0
  /\ ib_onProgress = FALSE /\ ib_index = 0 /\ ib_attempt = 0
  /\ ib_running = {} /\ ib_calls = <<>> /\ ib_results = <<>>
  /\ ib_progress = <<>> /\ ib_out = <<>>

dbIdle ==
  /\ db_pc = "idle" /\ db_opts = [concurrency |-> 0] /\ db_path = <<>>
  /\ db_cdn = <<>> /\ db_file = <<>> /\ db_w = <<>> /\ db_attempt = <<>>
  /\ db_tried = <<>> /\ db_result = <<>> /\ db_progressMap = {}
  /\ db_completed = 0 /\ db_current = 0 /\ db_out = <<>>

\* ========================================================================
\* withRetry  (src/src/utils/retry.ts:69-114)
\* ========================================================================
\* What fn can throw: an Error, or any other value (retry.ts:85 converts it).
Msgs == {"e1", "e2"}
Thrown == [isError : BOOLEAN, msg : Msgs]

\* retry.ts:85  lastError = error instanceof Error ? error : new Error(String(error))
toError(v) == IF v.isError THEN v ELSE [isError |-> TRUE, msg |-> v.msg]

\* Mutant: the exhaustion test is off by one (attempt >= retries).
withRetryCatch_offByOne(attempt, retries, accepted) ==
  LET a == attempt + 1 IN
  IF ~accepted THEN [attempt |-> a, next |-> "throw"]
  ELSE IF a >= retries THEN [attempt |-> a, next |-> "throw"]
  ELSE [attempt |-> a, next |-> "delay"]

\* Mutant: the refusal of shouldRetry is ignored (retry.ts:89-92 left out).
withRetryCatch_ignoreRefusal(attempt, retries, accepted) ==
  LET a == attempt + 1 IN
  IF a > retries THEN [attempt |-> a, next |-> "throw"]
  ELSE [attempt |-> a, next |-> "delay"]

\* retry.ts:83-109, the catch block of one attempt: attempt++, then throw when
\* shouldRetry refuses or the attempts are exhausted, else onRetry and delay.
withRetryCatch(attempt, retries, accepted) ==
  LET a == attempt + 1 IN
  IF ~accepted THEN [attempt |-> a, next |-> "throw"]
  ELSE IF a > retries THEN [attempt |-> a, next |-> "throw"]
  ELSE [attempt |-> a, next |-> "delay"]

\* options.shouldRetry applied to lastError
shouldRetry(e) == e.msg \in wr_accept

InitRetry ==
  /\ wr_retries \in 0..MaxRetries
  /\ wr_accept \in SUBSET Msgs
  /\ wr_attempt = 0
  /\ wr_lastError = NoError
  /\ wr_pc = "calling"          \* retry.ts:79-82: 0 <= retries, fn() is called
  /\ wr_calls = 1
  /\ wr_thrownBy = <<>>
  /\ wr_onRetry = <<>>
  /\ pbIdle /\ fvIdle /\ dvIdle /\ rlIdle /\ xlIdle /\ ibIdle /\ dbIdle

\* retry.ts:82  return await fn()
withRetry_resolve ==
  /\ wr_pc = "calling"
  /\ wr_pc' = "returned"
  /\ UNCHANGED <<wr_retries, wr_accept, wr_attempt, wr_lastError, wr_calls,
                 wr_thrownBy, wr_onRetry>>
  /\ UNCHANGED <<pbVars, fvVars, dvVars, rlVars, xlVars, ibVars, dbVars>>

\* retry.ts:83-109  fn() threw v
withRetry_reject ==
  /\ wr_pc = "calling"
  /\ \E v \in Thrown :
       LET err == toError(v)
           c   == withRetryCatch(wr_attempt, wr_retries, shouldRetry(err))
       IN /\ wr_lastError' = err
          /\ wr_attempt' = c.attempt
          /\ wr_thrownBy' = Append(wr_thrownBy, v)
          /\ IF c.next = "throw"
               THEN /\ wr_pc' = "thrown"
                    /\ wr_onRetry' = wr_onRetry
               ELSE /\ wr_pc' = "delay"
                    /\ wr_onRetry' = Append(wr_onRetry, c.attempt)
  /\ UNCHANGED <<wr_retries, wr_accept, wr_calls>>
  /\ UNCHANGED <<pbVars, fvVars, dvVars, rlVars, xlVars, ibVars, dbVars>>

\* retry.ts:108 and 79-82: the delay elapses, the loop test holds (attempt <=
\* retries is what let the catch block go on), fn is called again
withRetry_delayElapsed ==
  /\ wr_pc = "delay"
  /\ wr_attempt <= wr_retries
  /\ wr_pc' = "calling"
  /\ wr_calls' = wr_calls + 1
  /\ UNCHANGED <<wr_retries, wr_accept, wr_attempt, wr_lastError, wr_thrownBy,
                 wr_onRetry>>
  /\ UNCHANGED <<pbVars, fvVars, dvVars, rlVars, xlVars, ibVars, dbVars>>

NextRetry == withRetry_resolve \/ withRetry_reject \/ withRetry_delayElapsed

SpecRetry == InitRetry /\ [][NextRetry]_vars

\* C10: if every attempt fails with an error shouldRetry accepts, withRetry
\* invokes the operation exactly retries+1 times and then fails with the
\* error thrown by the last attempt.
C10_ExhaustedAfterRetriesPlusOne ==
  (/\ wr_pc = "thrown"
   /\ \A i \in 1..Len(wr_thrownBy) : toError(wr_thrownBy[i]).msg \in wr_accept)
  => /\ wr_calls = wr_retries + 1
     /\ Len(wr_thrownBy) = wr_retries + 1
     /\ wr_lastError = toError(wr_thrownBy[Len(wr_thrownBy)])
     /\ (wr_thrownBy[Len(wr_thrownBy)].isError
           => wr_lastError = wr_thrownBy[Len(wr_thrownBy)])

C10_Witness ==
  /\ wr_pc = "thrown"
  /\ wr_retries = 2
  /\ wr_calls = 3
  /\ \A i \in 1..Len(wr_thrownBy) : wr_thrownBy[i].msg \in wr_accept
  /\ wr_thrownBy[1].msg # wr_thrownBy[3].msg

\* The value the last failed attempt threw, as withRetry sees it.
lastThrown == toError(wr_thrownBy[Len(wr_thrownBy)])

\* C11: when shouldRetry refuses the error of an attempt, withRetry fails at
\* once with that error: no onRetry, no delay and no further invocation of the
\* operation follow that attempt, however many retries remain.
C11_RefusedErrorFailsImmediately ==
  (Len(wr_thrownBy) > 0 /\ lastThrown.msg \notin wr_accept)
  => /\ wr_pc = "thrown"
     /\ wr_lastError = lastThrown
     /\ wr_calls = Len(wr_thrownBy)
     /\ Len(wr_onRetry) = Len(wr_thrownBy) - 1

C11_Witness ==
  /\ wr_pc = "thrown"
  /\ wr_retries = 2
  /\ wr_calls = 1
  /\ wr_attempt = 1
  /\ Len(wr_thrownBy) = 1
  /\ wr_thrownBy[1].msg \notin wr_accept

\* ========================================================================
\* processBatch  (src/src/utils/retry.ts:138-197)
\* PromisePool.withConcurrency(c).for(items).handleError(h).process(task):
\* at most c tasks are in flight, items are taken in input order, a task's
\* return value is appended to results, a task's rejection is handed to h
\* (and, a handler being set, not collected in the pool's own errors).
\* ========================================================================
Items == 1..pb_total

SeqToSet(s) == {s[i] : i \in 1..Len(s)}

\* the tasks the pool has in flight (a running worker or a retry delay)
active == {i \in Items : pb_status[i] \in {"running", "delay"}}

\* Mutant: the error handler logs the error and forgets to collect it.
handleError_drop(allErrors, item) == allErrors

\* retry.ts:163-169  allErrors.push(err)
handleError(allErrors, item) == Append(allErrors, item)

\* retry.ts:175  completed++
onCompleted(completed) == completed + 1

\* Mutant: the pool starts a task whatever the number in flight.
hasCapacity_unbounded(inFlight, concurrency) == TRUE

\* retry.ts:160-161  PromisePool.withConcurrency(concurrency): a task is
\* started only while fewer than `concurrency` tasks are in flight
hasCapacity(inFlight, concurrency) == inFlight < concurrency

InitBatch ==
  /\ pb_pc = "pool"
  /\ pb_total \in 0..MaxItems
  /\ pb_concurrency \in 1..MaxConcurrency
  /\ pb_retries \in 0..MaxRetries
  /\ pb_status = [i \in 1..pb_total |-> "pending"]
  /\ pb_attempt = [i \in 1..pb_total |-> 0]
  /\ pb_completed = 0
  /\ pb_allErrors = <<>>
  /\ pb_results = <<>>
  /\ pb_poolErrors = <<>>
  /\ pb_progress = <<>>
  /\ pb_out = [results |-> <<>>, errors |-> <<>>]
  /\ wrIdle /\ fvIdle /\ dvIdle /\ rlIdle /\ xlIdle /\ ibIdle /\ dbIdle

\* PromisePool: the next item of the input is handed to the task when fewer
\* than `concurrency` tasks are in flight; retry.ts:171 calls withRetry(fn)
pool_start ==
  /\ pb_pc = "pool"
  /\ hasCapacity(Cardinality(active), pb_concurrency)
  /\ \E i \in Items :
       /\ pb_status[i] = "pending"
       /\ \A j \in Items : j < i => pb_status[j] # "pending"
       /\ pb_status' = [pb_status EXCEPT ![i] = "running"]
  /\ UNCHANGED <<pb_pc, pb_total, pb_concurrency, pb_retries, pb_attempt,
                 pb_completed, pb_allErrors, pb_results, pb_poolErrors,
                 pb_progress, pb_out>>
  /\ UNCHANGED <<wrVars, fvVars, dvVars, rlVars, xlVars, ibVars, dbVars>>

\* retry.ts:171-180  fn(item, index) resolved: withRetry returns, completed++,
\* onProgress(completed, total, allErrors), the pool appends the result
worker_resolve ==
  /\ pb_pc = "pool"
  /\ \E i \in Items :
       /\ pb_status[i] = "running"
       /\ pb_status' = [pb_status EXCEPT ![i] = "ok"]
       /\ pb_completed' = onCompleted(pb_completed)
       /\ pb_progress' = Append(pb_progress,
            [completed |-> pb_completed', total |-> pb_total,
             errors |-> Len(pb_allErrors)])
       /\ pb_results' = Append(pb_results, i)
  /\ UNCHANGED <<pb_pc, pb_total, pb_concurrency, pb_retries, pb_attempt,
                 pb_allErrors, pb_poolErrors, pb_out>>
  /\ UNCHANGED <<wrVars, fvVars, dvVars, rlVars, xlVars, ibVars, dbVars>>

\* retry.ts:171-174 with 83-109: fn(item, index) threw.  withRetry either
\* waits for the next attempt or throws; its throw leaves the task before
\* completed++ / onProgress (retry.ts:175-179) and reaches handleError
worker_reject ==
  /\ pb_pc = "pool"
  /\ \E i \in Items, accepted \in BOOLEAN :
       LET c == withRetryCatch(pb_attempt[i], pb_retries, accepted) IN
       /\ pb_status[i] = "running"
       /\ pb_attempt' = [pb_attempt EXCEPT ![i] = c.attempt]
       /\ IF c.next = "throw"
            THEN /\ pb_status' = [pb_status EXCEPT ![i] = "failed"]
                 /\ pb_allErrors' = handleError(pb_allErrors, i)
            ELSE /\ pb_status' = [pb_status EXCEPT ![i] = "delay"]
                 /\ pb_allErrors' = pb_allErrors
  /\ UNCHANGED <<pb_pc, pb_total, pb_concurrency, pb_retries, pb_completed,
                 pb_results, pb_poolErrors, pb_progress, pb_out>>
  /\ UNCHANGED <<wrVars, fvVars, dvVars, rlVars, xlVars, ibVars, dbVars>>

\* retry.ts:108, 79-82  the retry delay of an item elapses, fn is called again
worker_delayElapsed ==
  /\ pb_pc = "pool"
  /\ \E i \in Items :
       /\ pb_status[i] = "delay"
       /\ pb_attempt[i] <= pb_retries
       /\ pb_status' = [pb_status EXCEPT ![i] = "running"]
  /\ UNCHANGED <<pb_pc, pb_total, pb_concurrency, pb_retries, pb_attempt,
                 pb_completed, pb_allErrors, pb_results, pb_poolErrors,
                 pb_progress, pb_out>>
  /\ UNCHANGED <<wrVars, fvVars, dvVars, rlVars, xlVars, ibVars, dbVars>>

\* retry.ts:183-196  the pool has drained: finalErrors = allErrors.concat(errors)
processBatch_return ==
  /\ pb_pc = "pool"
  /\ \A i \in Items : pb_status[i] \in {"ok", "failed"}
  /\ pb_out' = [results |-> pb_results, errors |-> pb_allErrors \o pb_poolErrors]
  /\ pb_pc' = "returned"
  /\ UNCHANGED <<pb_total, pb_concurrency, pb_retries, pb_status, pb_attempt,
                 pb_completed, pb_allErrors, pb_results, pb_poolErrors,
                 pb_progress>>
  /\ UNCHANGED <<wrVars, fvVars, dvVars, rlVars, xlVars, ibVars, dbVars>>

NextBatch ==
  \/ pool_start
  \/ worker_resolve
  \/ worker_reject
  \/ worker_delayElapsed
  \/ processBatch_return

SpecBatch == InitBatch /\ [][NextBatch]_vars

\* the items whose worker still threw when withRetry gave up
failedTerminally == {i \in Items : pb_status[i] = "failed"}

\* C1: a batch of N items of which K fail terminally returns exactly N-K
\* results and K errors (so results + errors = N); every item contributes
\* exactly one outcome, whatever happened to the other items.
C1_PartialFailureIsolation ==
  pb_pc = "returned" =>
    /\ Len(pb_out.results) = pb_total - Cardinality(failedTerminally)
    /\ Len(pb_out.errors) = Cardinality(failedTerminally)
    /\ Len(pb_out.results) + Len(pb_out.errors) = pb_total
    /\ SeqToSet(pb_out.errors) = failedTerminally
    /\ SeqToSet(pb_out.results) = Items \ failedTerminally

C1_Witness ==
  /\ pb_pc = "returned"
  /\ pb_total = 3
  /\ Cardinality(failedTerminally) = 2
  /\ Len(pb_out.results) = 1
  /\ pb_status[1] = "failed" /\ pb_status[2] = "ok" /\ pb_status[3] = "failed"

\* C14: at every moment of a processBatch run at most `concurrency` items
\* are being processed (a running worker, or a worker waiting to retry).
C14_ConcurrencyBound == Cardinality(active) <= pb_concurrency

C14_Witness ==
  /\ pb_pc = "pool"
  /\ pb_total = 3
  /\ pb_concurrency = 2
  /\ pb_status[1] = "delay" /\ pb_status[2] = "running"
  /\ pb_status[3] = "pending"

\* the items whose task is over, by success or by terminal failure
completions == {i \in Items : pb_status[i] \in {"ok", "failed"}}

\* C2: onProgress is called after every item completion, terminal failures
\* included, and the completedCount it passes increases from call to call.
C2_ProgressOnEveryCompletion ==
  /\ Len(pb_progress) = Cardinality(completions)
  /\ \A k \in 1..Len(pb_progress) : pb_progress[k].completed = k

\* ========================================================================
\* fetchUserVideos  (src/src/douyin/info/user.ts:218-303) with
\* fetchUserVideoPage (user.ts:117-208) and fetchWithRetry
\* (src/info/error-handler.ts, part_005:102-142)
\* ========================================================================
\* part_005:30  DEFAULT_RETRY_CONFIG.maxRetries
FetchMaxRetries == 3
\* reference/DouyinDownload.ts:1032  const maxPages = 100 (safety ceiling)
SafetyPageCeiling == 100

Cursors == 0..MaxCursor

\* the values of response.has_more: the numbers 1 and 0, the strings "1" and
\* "0", the booleans, and an absent field
HasMoreValues == {"num1", "str1", "true", "num0", "str0", "false", "absent"}

\* user.ts:183  hasMore: response.has_more === 1
hasMoreStrict(v) == v = "num1"

\* reference/DouyinDownload.ts:1071  DouyinAccountAPI.run:
\* hasMore = response.has_more == 1  (loose equality: "1" and true equal 1)
hasMoreLoose(v) == v \in {"num1", "str1", "true"}

\* reference/DouyinDownload.ts:679-686  BaseAPI.checkResponse: true when the
\* field is absent, else String(v) is neither '0' nor 'false'
hasMoreCoerced(v) == v \notin {"num0", "str0", "false"}

\* a well-formed page: aweme_list of n items, status_code 0
OkAnswers ==
  [kind : {"ok"}, n : 0..MaxPageItems, max_cursor : Cursors,
   has_more : HasMoreValues]

\* what the fetcher closure (user.ts:144-206) can throw, by cause
ErrorKinds == {"malformed", "http401", "http403", "http500", "timeout",
               "network"}

\* the thrown Error: its name, whether its message holds one of the
\* retryable keywords of part_005:49-62, its statusCode (0: none), whether
\* its message holds "403", and whether its message holds a retryable
\* (dlKeyword) or a non-retryable (dlPermanent) keyword of the download
\* module's isRetryableError (error-handler.ts:142-166).
\*   malformed: user.ts:149 (no aweme_list) / fetch.ts:140 (no JSON)
\*   http4xx/5xx: fetch.ts:89-94 "HTTP 錯誤 <status> (<statusText>) ..."
\*   timeout: the AbortError of fetch.ts:69; network: fetch's TypeError
errOf(kind) ==
  CASE kind = "malformed" ->
         [name |-> "Error", keyword |-> FALSE, statusCode |-> 0,
          has403 |-> FALSE, dlKeyword |-> FALSE, dlPermanent |-> FALSE]
    [] kind = "http401" ->
         [name |-> "Error", keyword |-> FALSE, statusCode |-> 401,
          has403 |-> FALSE, dlKeyword |-> FALSE, dlPermanent |-> TRUE]
    [] kind = "http403" ->
         [name |-> "Error", keyword |-> FALSE, statusCode |-> 403,
          has403 |-> TRUE, dlKeyword |-> FALSE, dlPermanent |-> TRUE]
    [] kind = "http500" ->
         [name |-> "Error", keyword |-> TRUE, statusCode |-> 500,
          has403 |-> FALSE, dlKeyword |-> FALSE, dlPermanent |-> FALSE]
    [] kind = "timeout" ->
         [name |-> "AbortError", keyword |-> FALSE, statusCode |-> 0,
          has403 |-> FALSE, dlKeyword |-> FALSE, dlPermanent |-> FALSE]
    [] kind = "network" ->
         [name |-> "TypeError", keyword |-> FALSE, statusCode |-> 0,
          has403 |-> FALSE, dlKeyword |-> FALSE, dlPermanent |-> FALSE]

\* part_005:12-18
RETRYABLE_ERROR_TYPES ==
  {"TimeoutError", "NetworkError", "ConnectionError", "NavigationError",
   "AbortError"}

\* part_005:41-77  isRetryableError of the info module
isRetryableError(e) ==
  IF e.name \in RETRYABLE_ERROR_TYPES THEN TRUE
  ELSE IF e.keyword THEN TRUE
  ELSE IF e.statusCode # 0
         THEN e.statusCode >= 500 \/ e.statusCode = 429 \/ e.statusCode = 408
  ELSE FALSE

\* error-handler.ts:137-172  isRetryableError of the download module
downloadIsRetryableError(e) ==
  IF e.dlKeyword THEN TRUE
  ELSE IF e.dlPermanent THEN FALSE
  ELSE TRUE

\* retry.ts:41  DEFAULT_RETRY_OPTIONS.shouldRetry
defaultShouldRetry(e) == TRUE

\* user.ts:201  statusCode === 403 || message.includes('403'); statusCode is
\* read from error.response.status, which the errors of fetch.ts do not carry
isForbidden(e) == e.has403

\* part_005:114-137  the catch block of fetchWithRetry
fetchWithRetryCatch(attempt, maxRetries, retryable) ==
  LET a == attempt + 1 IN
  IF a > maxRetries \/ ~retryable
    THEN [attempt |-> a, next |-> "throw"]
    ELSE [attempt |-> a, next |-> "delay"]

\* Mutant: the result is returned without being cut to the limit.
truncate_none(results, limit) == results

\* user.ts:280  results.splice(limit)
truncate(results, limit) == SubSeq(results, 1, limit)

\* user.ts:279  limit > 0 && results.length >= limit
limitReached(limit, len) == limit > 0 /\ len >= limit

\* user.ts:250  while (hasMore && (limit === 0 || results.length < limit))
loopTest(hasMore, limit, len) == hasMore /\ (limit = 0 \/ len < limit)

InitFetch ==
  /\ fv_limit \in 0..MaxLimit
  /\ fv_cursor = 0
  /\ fv_hasMore = TRUE
  /\ fv_results = <<>>
  /\ fv_pc = "page"             \* user.ts:250-259: the first page is requested
  /\ fv_pages = 1
  /\ fv_attempt = 0
  /\ fv_lastPage = [kind |-> "none"]
  /\ fv_served = 0
  /\ wrIdle /\ pbIdle /\ dvIdle /\ rlIdle /\ xlIdle /\ ibIdle /\ dbIdle

\* user.ts:262-292  what fetchUserVideos does with the page it was given
afterPage(videos, nextCursor, hasMoreData) ==
  LET pushed == fv_results \o videos IN
  /\ fv_cursor' = nextCursor
  /\ fv_hasMore' = hasMoreData
  /\ fv_attempt' = 0
  /\ IF limitReached(fv_limit, Len(pushed))
       THEN /\ fv_results' = truncate(pushed, fv_limit)
            /\ fv_pc' = "returned"
       ELSE IF ~hasMoreData
         THEN /\ fv_results' = pushed
              /\ fv_pc' = "returned"
         ELSE /\ fv_results' = pushed
              /\ fv_pc' = "delay"

\* user.ts:145-185 then 262-292: the upstream answers a well-formed page
fetchUserVideoPage_ok ==
  /\ fv_pc = "page"
  /\ \E a \in OkAnswers :
       /\ fv_served + a.n <= MaxServed
       /\ fv_served' = fv_served + a.n
       /\ fv_lastPage' = [kind |-> "ok", n |-> a.n, max_cursor |-> a.max_cursor,
                          has_more |-> a.has_more, cursor |-> fv_cursor]
       /\ afterPage([k \in 1..a.n |-> fv_served + k], a.max_cursor,
                    hasMoreStrict(a.has_more))
  /\ UNCHANGED <<fv_limit, fv_pages>>
  /\ UNCHANGED <<wrVars, pbVars, dvVars, rlVars, xlVars, ibVars, dbVars>>

\* user.ts:187-204  the fetcher threw an error that reads as a 403: an empty
\* last page {videos: [], nextCursor: 0, hasMore: false} is returned
fetchUserVideoPage_forbidden ==
  /\ fv_pc = "page"
  /\ \E kind \in ErrorKinds :
       /\ isForbidden(errOf(kind))
       /\ fv_lastPage' = [kind |-> kind, n |-> 0, max_cursor |-> 0,
                          has_more |-> "absent", cursor |-> fv_cursor]
       /\ afterPage(<<>>, 0, FALSE)
  /\ UNCHANGED <<fv_limit, fv_pages, fv_served>>
  /\ UNCHANGED <<wrVars, pbVars, dvVars, rlVars, xlVars, ibVars, dbVars>>

\* user.ts:205 rethrows any other error to fetchWithRetry (part_005:114-137),
\* which waits for another attempt or throws; its throw reaches the catch of
\* fetchUserVideos (user.ts:297-302), which throws for the whole call
fetchUserVideoPage_error ==
  /\ fv_pc = "page"
  /\ \E kind \in ErrorKinds :
       LET e == errOf(kind)
           c == fetchWithRetryCatch(fv_attempt, FetchMaxRetries, isRetryableError(e))
       IN /\ ~isForbidden(e)
          /\ fv_attempt' = c.attempt
          /\ fv_lastPage' = [kind |-> kind, n |-> 0, max_cursor |-> 0,
                             has_more |-> "absent", cursor |-> fv_cursor]
          /\ fv_pc' = IF c.next = "throw" THEN "thrown" ELSE "retryDelay"
  /\ UNCHANGED <<fv_limit, fv_cursor, fv_hasMore, fv_results, fv_pages, fv_served>>
  /\ UNCHANGED <<wrVars, pbVars, dvVars, rlVars, xlVars, ibVars, dbVars>>

\* part_005:136, 110-113  the retry delay elapses, the same page is asked again
fetchWithRetry_delayElapsed ==
  /\ fv_pc = "retryDelay"
  /\ fv_attempt <= FetchMaxRetries
  /\ fv_pc' = "page"
  /\ UNCHANGED <<fv_limit, fv_cursor, fv_hasMore, fv_results, fv_attempt,
                 fv_pages, fv_lastPage, fv_served>>
  /\ UNCHANGED <<wrVars, pbVars, dvVars, rlVars, xlVars, ibVars, dbVars>>

\* user.ts:290, 250-259  the inter-page delay elapses, the loop test holds and
\* the next page is requested with the current cursor
fetchUserVideos_nextPage ==
  /\ fv_pc = "delay"
  /\ loopTest(fv_hasMore, fv_limit, Len(fv_results))
  /\ fv_pages < MaxPageRequests
  /\ fv_pages' = fv_pages + 1
  /\ fv_pc' = "page"
  /\ UNCHANGED <<fv_limit, fv_cursor, fv_hasMore, fv_results, fv_attempt,
                 fv_lastPage, fv_served>>
  /\ UNCHANGED <<wrVars, pbVars, dvVars, rlVars, xlVars, ibVars, dbVars>>

NextFetch ==
  \/ fetchUserVideoPage_ok
  \/ fetchUserVideoPage_forbidden
  \/ fetchUserVideoPage_error
  \/ fetchWithRetry_delayElapsed
  \/ fetchUserVideos_nextPage

SpecFetch == InitFetch /\ [][NextFetch]_vars

\* the last answer was a page that returned the cursor it was requested with
staleAnswer ==
  /\ fv_lastPage.kind = "ok"
  /\ fv_lastPage.n > 0
  /\ fv_lastPage.max_cursor = fv_lastPage.cursor

\* C3: when the source returns the same cursor twice in a row (the second
\* page answers with the cursor it was requested with), no third page is
\* requested, even if has-more is still true.
C3_StaleCursorStops ==
  ~(fv_pc = "page" /\ fv_pages >= 3 /\ staleAnswer)

\* the last answer was a page with items and a cursor that moved: the
\* reference stops on it for no other reason than has_more
\* (reference/DouyinDownload.ts:1054-1058, 1075-1079, 688-692)
decidedByHasMore ==
  /\ fv_lastPage.kind = "ok"
  /\ fv_lastPage.n > 0
  /\ fv_lastPage.max_cursor # fv_lastPage.cursor

\* C28: fetchUserVideos and the reference pagination (DouyinAccountAPI.run,
\* BaseAPI.checkResponse) take the same continue/stop decision for every
\* has_more value the API can return (1, "1", true, 0, "0", false, absent),
\* given the same item list and cursor.
C28_SameHasMoreDecision ==
  decidedByHasMore =>
    /\ fv_hasMore = hasMoreLoose(fv_lastPage.has_more)
    /\ fv_hasMore = hasMoreCoerced(fv_lastPage.has_more)

\* C4: one paginated fetch never requests more than the safety ceiling of
\* pages.
C4_PageCeiling == fv_pages <= SafetyPageCeiling

\* C5: when a page response is malformed or signals an access/permission
\* error, the fetch ends gracefully and returns the items accumulated from
\* the earlier pages instead of failing the whole call.
C5_GracefulOnBadPage ==
  (fv_lastPage.kind \in {"malformed", "http401", "http403"}
     /\ fv_pc \in {"returned", "thrown"})
  => /\ fv_pc = "returned"
     /\ fv_results = [k \in 1..fv_served |-> k]

unclassified(e) ==
  /\ e.name \notin RETRYABLE_ERROR_TYPES
  /\ ~e.keyword /\ e.statusCode = 0
  /\ ~e.dlKeyword /\ ~e.dlPermanent

\* C17: every default retry predicate (DEFAULT_RETRY_OPTIONS.shouldRetry, the
\* download module's and the info module's isRetryableError) classifies an
\* error it cannot classify as retryable; so a page request that failed
\* with such an error is given up only when its attempts are exhausted.
C17_UnknownErrorsRetryable ==
  (fv_lastPage.kind \in ErrorKinds /\ unclassified(errOf(fv_lastPage.kind)))
  => /\ defaultShouldRetry(errOf(fv_lastPage.kind))
     /\ downloadIsRetryableError(errOf(fv_lastPage.kind))
     /\ isRetryableError(errOf(fv_lastPage.kind))
     /\ (fv_pc = "thrown" => fv_attempt > FetchMaxRetries)

\* the last answer was a well-formed page with an empty item list
emptyAnswer == fv_lastPage.kind = "ok" /\ fv_lastPage.n = 0

\* C15: a page whose item list is empty ends the paginated fetch: no further
\* page is requested after it, whatever has-more flag and next cursor it
\* carries.
C15_EmptyPageStops == ~(fv_pc = "page" /\ emptyAnswer)


\* ========================================================================
\* downloadVideo  (src/download/video-downloader.ts, part_008:39-221) with
\* downloadFile   (src/utils/file.ts, part_011:32-149) and
\* enhancedFetch  (src/src/utils/fetch.ts:50-126)
\* ========================================================================
\* fetch.ts:22  DEFAULT_FETCH_OPTIONS.retries (downloadFile passes none)
FetchRetries == 3

\* videoInfo.videoPlayUrl: a URL, or the empty string of part_008:61
UrlKinds == {"url", "empty"}

\* why an HTTP request or a read of the body fails
FailKinds == {"http401", "http403", "http404", "http500", "network", "timeout"}

\* fs.pathExists(finalPath)
exists(file) == file # "absent"

\* Mutant: downloadFile leaves the partial file behind.
downloadFile_cleanup_skip(file, unlinkOk) == file

\* part_011:137-145  if (await fs.pathExists(destPath)) await fs.unlink(destPath),
\* a failing unlink being caught and logged
downloadFile_cleanup(file, unlinkOk) ==
  IF exists(file) /\ unlinkOk THEN "absent" ELSE file

\* part_008:190-202  the same in the catch of downloadVideo; finalPath is ''
\* when the error came before it was determined
downloadVideo_cleanup(file, located, unlinkOk) ==
  IF located /\ exists(file) /\ unlinkOk THEN "absent" ELSE file

\* Mutant: the overwrite flag is read the wrong way round.
returnsExisting_inverted(checkExisting, fileExists, overwrite) ==
  checkExisting /\ fileExists /\ overwrite

\* part_008:123-127  if (checkExisting) { if (fileExists && !overwrite) return
returnsExisting(checkExisting, fileExists, overwrite) ==
  checkExisting /\ fileExists /\ ~overwrite

\* part_008:172-178  shouldRetry: a DownloadError says itself, anything else
\* is retried
dvShouldRetry(isDownloadError, retryable) ==
  IF isDownloadError THEN retryable ELSE TRUE

\* Mutant: the recursive call goes on with the attempts already spent.
freshAttempt_carry(prev) == prev

\* retry.ts:76  let attempt = 0 (each call of withRetry)
freshAttempt(prev) == 0

\* the URLs the call has been given
UrlIdxs == 1..Len(dv_urls)

InitDownload ==
  /\ dv_urls \in UNION {[1..n -> UrlKinds] : n \in 1..MaxUrls}
  /\ dv_opts \in [retries : 0..MaxRetries, checkExisting : BOOLEAN,
                  overwrite : BOOLEAN]
  /\ dv_file \in {"absent", "existing"}
  /\ dv_file0 = dv_file
  /\ dv_urlIdx = 1
  /\ dv_pc = "start"
  /\ dv_attempt = 0
  /\ dv_efAttempt = 0
  /\ dv_written = 0
  /\ dv_calls = [i \in 1..Len(dv_urls) |-> 0]
  /\ dv_requests = 0
  /\ dv_unlinkFailed = FALSE
  /\ dv_lastFail = "none"
  /\ wrIdle /\ pbIdle /\ fvIdle /\ rlIdle /\ xlIdle /\ ibIdle /\ dbIdle

\* part_011:47-58 and fetch.ts:63-75  downloadFile opens the write stream on
\* destPath (the file is created, or emptied) and sends the first request
downloadFile_start ==
  /\ dv_file' = "partial"
  /\ dv_written' = 0
  /\ dv_efAttempt' = 1
  /\ dv_calls' = [dv_calls EXCEPT ![dv_urlIdx] = @ + 1]
  /\ dv_requests' = dv_requests + 1
  /\ dv_pc' = "fetching"

\* part_008:184-219  the catch of downloadVideo: delete finalPath if it
\* exists, then recurse on the next download URL or throw DOWNLOAD_FAILED
downloadVideo_catch(file, located, unlinkOk, failedBefore) ==
  /\ dv_file' = downloadVideo_cleanup(file, located, unlinkOk)
  /\ dv_unlinkFailed' = IF located /\ exists(file) THEN ~unlinkOk ELSE failedBefore
  /\ IF dv_urlIdx < Len(dv_urls)
       THEN /\ dv_urlIdx' = dv_urlIdx + 1
            /\ dv_requests' = 0
            /\ dv_pc' = "start"
       ELSE /\ dv_urlIdx' = dv_urlIdx
            /\ dv_requests' = dv_requests
            /\ dv_pc' = "thrown"

\* Mutant: an error of fs.unlink escapes the cleanup and replaces the cause.
raisedCause_unlinkError(cause, deleted) ==
  IF deleted THEN cause ELSE "unlink"

\* part_011:137-147 and part_008:185-219  the cause the raised error tells:
\* an error of fs.unlink is caught and logged, the error thrown afterwards
\* is built from the message of the download failure
raisedCause(cause, deleted) == cause

\* part_011:127-147 then part_008:146-180: downloadFile failed; it deletes
\* the file and throws a plain Error, which withRetry's catch takes: another
\* attempt after a delay, or the throw that reaches the catch of downloadVideo
downloadFile_failed(cause, unlinkOk1, unlinkOk2) ==
  LET f1      == downloadFile_cleanup(dv_file, unlinkOk1)
      failed1 == IF exists(dv_file) THEN ~unlinkOk1 ELSE dv_unlinkFailed
      raised1 == raisedCause(cause, exists(dv_file) => unlinkOk1)
      c       == withRetryCatch(dv_attempt, dv_opts.retries,
                                dvShouldRetry(FALSE, TRUE))
  IN /\ dv_attempt' = c.attempt
     /\ IF c.next = "delay"
          THEN /\ dv_file' = f1
               /\ dv_unlinkFailed' = failed1
               /\ dv_lastFail' = raised1
               /\ dv_pc' = "retryDelay"
               /\ dv_urlIdx' = dv_urlIdx
               /\ dv_requests' = dv_requests
          ELSE /\ downloadVideo_catch(f1, TRUE, unlinkOk2, failed1)
               /\ dv_lastFail' = raisedCause(raised1, exists(f1) => unlinkOk2)

\* part_008:59-68  no play URL: DownloadError INVALID_URL, thrown before
\* finalPath is determined
downloadVideo_invalidUrl ==
  /\ dv_pc = "start"
  /\ dv_urls[dv_urlIdx] = "empty"
  /\ downloadVideo_catch(dv_file, FALSE, TRUE, dv_unlinkFailed)
  /\ UNCHANGED <<dv_opts, dv_urls, dv_attempt, dv_efAttempt, dv_file0,
                 dv_written, dv_calls, dv_lastFail>>
  /\ UNCHANGED <<wrVars, pbVars, fvVars, rlVars, xlVars, ibVars, dbVars>>

\* part_008:122-131  the file exists and is not to be overwritten
downloadVideo_existing ==
  /\ dv_pc = "start"
  /\ dv_urls[dv_urlIdx] # "empty"
  /\ returnsExisting(dv_opts.checkExisting, exists(dv_file), dv_opts.overwrite)
  /\ dv_pc' = "returned"
  /\ UNCHANGED <<dv_opts, dv_urls, dv_urlIdx, dv_attempt, dv_efAttempt, dv_file,
                 dv_file0, dv_written, dv_calls, dv_requests, dv_unlinkFailed,
                 dv_lastFail>>
  /\ UNCHANGED <<wrVars, pbVars, fvVars, rlVars, xlVars, ibVars, dbVars>>

\* part_008:133-162  the download starts: withRetry calls downloadFile
downloadVideo_download ==
  /\ dv_pc = "start"
  /\ dv_urls[dv_urlIdx] # "empty"
  /\ ~returnsExisting(dv_opts.checkExisting, exists(dv_file), dv_opts.overwrite)
  /\ dv_attempt' = freshAttempt(dv_attempt)
  /\ downloadFile_start
  /\ UNCHANGED <<dv_opts, dv_urls, dv_urlIdx, dv_file0, dv_unlinkFailed,
                 dv_lastFail>>
  /\ UNCHANGED <<wrVars, pbVars, fvVars, rlVars, xlVars, ibVars, dbVars>>

\* fetch.ts:75-98  the response is ok: downloadFile reads the body
enhancedFetch_ok ==
  /\ dv_pc = "fetching"
  /\ dv_pc' = "streaming"
  /\ UNCHANGED <<dv_opts, dv_urls, dv_urlIdx, dv_attempt, dv_efAttempt, dv_file,
                 dv_file0, dv_written, dv_calls, dv_requests, dv_unlinkFailed,
                 dv_lastFail>>
  /\ UNCHANGED <<wrVars, pbVars, fvVars, rlVars, xlVars, ibVars, dbVars>>

\* fetch.ts:81-121  the request failed (any status, any error) and attempts
\* remain: enhancedFetch waits
enhancedFetch_retry ==
  /\ dv_pc = "fetching"
  /\ ~(dv_efAttempt > FetchRetries)
  /\ \E kind \in FailKinds : dv_lastFail' = kind
  /\ dv_pc' = "efDelay"
  /\ UNCHANGED <<dv_opts, dv_urls, dv_urlIdx, dv_attempt, dv_efAttempt, dv_file,
                 dv_file0, dv_written, dv_calls, dv_requests, dv_unlinkFailed>>
  /\ UNCHANGED <<wrVars, pbVars, fvVars, rlVars, xlVars, ibVars, dbVars>>

\* fetch.ts:121, 63-75  the backoff elapses, the request is sent again
enhancedFetch_delayElapsed ==
  /\ dv_pc = "efDelay"
  /\ dv_efAttempt <= FetchRetries
  /\ dv_efAttempt' = dv_efAttempt + 1
  /\ dv_requests' = dv_requests + 1
  /\ dv_pc' = "fetching"
  /\ UNCHANGED <<dv_opts, dv_urls, dv_urlIdx, dv_attempt, dv_file, dv_file0,
                 dv_written, dv_calls, dv_unlinkFailed, dv_lastFail>>
  /\ UNCHANGED <<wrVars, pbVars, fvVars, rlVars, xlVars, ibVars, dbVars>>

\* fetch.ts:113-116  the last attempt failed: enhancedFetch throws, and so
\* does downloadFile
enhancedFetch_giveUp ==
  /\ dv_pc = "fetching"
  /\ dv_efAttempt > FetchRetries
  /\ \E kind \in FailKinds, ok1 \in BOOLEAN, ok2 \in BOOLEAN :
       downloadFile_failed(kind, ok1, ok2)
  /\ UNCHANGED <<dv_opts, dv_urls, dv_efAttempt, dv_file0, dv_written,
                 dv_calls>>
  /\ UNCHANGED <<wrVars, pbVars, fvVars, rlVars, xlVars, ibVars, dbVars>>

\* part_011:87-120  a chunk of the body is written to the file
processChunk_write ==
  /\ dv_pc = "streaming"
  /\ dv_written < MaxChunks
  /\ dv_written' = dv_written + 1
  /\ UNCHANGED <<dv_pc, dv_opts, dv_urls, dv_urlIdx, dv_attempt, dv_efAttempt,
                 dv_file, dv_file0, dv_calls, dv_requests, dv_unlinkFailed,
                 dv_lastFail>>
  /\ UNCHANGED <<wrVars, pbVars, fvVars, rlVars, xlVars, ibVars, dbVars>>

\* part_011:90-98, 123-126 and part_008:182-183  the body ends: the file is
\* complete, downloadFile, withRetry and downloadVideo return
processChunk_done ==
  /\ dv_pc = "streaming"
  /\ dv_file' = "complete"
  /\ dv_pc' = "returned"
  /\ UNCHANGED <<dv_opts, dv_urls, dv_urlIdx, dv_attempt, dv_efAttempt,
                 dv_file0, dv_written, dv_calls, dv_requests, dv_unlinkFailed,
                 dv_lastFail>>
  /\ UNCHANGED <<wrVars, pbVars, fvVars, rlVars, xlVars, ibVars, dbVars>>

\* part_011:88, 106-108  the transfer is interrupted (reader.read or the
\* write rejects): downloadFile fails
processChunk_fail ==
  /\ dv_pc = "streaming"
  /\ \E ok1 \in BOOLEAN, ok2 \in BOOLEAN :
       downloadFile_failed("network", ok1, ok2)
  /\ UNCHANGED <<dv_opts, dv_urls, dv_efAttempt, dv_file0, dv_written,
                 dv_calls>>
  /\ UNCHANGED <<wrVars, pbVars, fvVars, rlVars, xlVars, ibVars, dbVars>>

\* part_011:88 with fetch.ts:77-79  the server stops sending in the middle of
\* the body: reader.read() stays pending; the timer of fetch.ts:68-70 was
\* cleared when the headers arrived and no other timer watches the transfer
processChunk_stall ==
  /\ dv_pc = "streaming"
  /\ dv_pc' = "stalled"
  /\ UNCHANGED <<dv_opts, dv_urls, dv_urlIdx, dv_attempt, dv_efAttempt, dv_file,
                 dv_file0, dv_written, dv_calls, dv_requests, dv_unlinkFailed,
                 dv_lastFail>>
  /\ UNCHANGED <<wrVars, pbVars, fvVars, rlVars, xlVars, ibVars, dbVars>>

\* retry.ts:108, 79-82  withRetry's delay elapses: downloadFile is called again
downloadVideo_retry ==
  /\ dv_pc = "retryDelay"
  /\ dv_attempt <= dv_opts.retries
  /\ downloadFile_start
  /\ UNCHANGED <<dv_opts, dv_urls, dv_urlIdx, dv_attempt, dv_file0,
                 dv_unlinkFailed, dv_lastFail>>
  /\ UNCHANGED <<wrVars, pbVars, fvVars, rlVars, xlVars, ibVars, dbVars>>

NextDownload ==
  \/ downloadVideo_invalidUrl
  \/ downloadVideo_existing
  \/ downloadVideo_download
  \/ enhancedFetch_ok
  \/ enhancedFetch_retry
  \/ enhancedFetch_delayElapsed
  \/ enhancedFetch_giveUp
  \/ processChunk_write
  \/ processChunk_done
  \/ processChunk_fail
  \/ processChunk_stall
  \/ downloadVideo_retry

SpecDownload == InitDownload /\ [][NextDownload]_vars

\* the same with progress: a step of the call that can be taken (a timer
\* that fires, a promise that settles) is taken in the end
SpecDownloadLive ==
  InitDownload /\ [][NextDownload]_vars /\ WF_vars(NextDownload)

\* the call waits for the server: for the response headers, or for the next
\* chunk of a body whose transfer stopped
waitingForServer == dv_pc \in {"fetching", "stalled"}

\* C21: a network operation that exceeds its request timeout is aborted and
\* fails with a retryable error: no download attempt waits forever on a
\* server that stops responding, before the headers or in the middle of the
\* body.
C21_NoWaitForever == waitingForServer ~> ~waitingForServer

\* a download was attempted: downloadFile was called for some URL
attempted == \E i \in UrlIdxs : dv_calls[i] > 0

\* C7 (as stated): after a failed download attempt the destination file is
\* gone before the next retry starts and when the call fails.
C7_NoPartialFileAfterFailure ==
  /\ dv_pc = "retryDelay" => dv_file = "absent"
  /\ (dv_pc = "thrown" /\ attempted) => dv_file = "absent"

\* C7 (amended): after a failed download attempt the deletion of the
\* destination file has been tried before the next retry starts and before
\* the error is raised; the file is gone unless that deletion failed.
C7_PartialFileDeletedUnlessUnlinkFails ==
  /\ dv_pc = "retryDelay" => (dv_file = "absent" \/ dv_unlinkFailed)
  /\ (dv_pc = "thrown" /\ attempted) => (dv_file = "absent" \/ dv_unlinkFailed)
  /\ (dv_pc \in {"retryDelay", "thrown"} /\ dv_file # "absent" /\ attempted)
       => dv_file = "partial"

C7_Witness ==
  /\ dv_pc = "thrown"
  /\ dv_file0 = "absent"
  /\ dv_file = "absent"
  /\ dv_written = 1
  /\ dv_lastFail = "network"
  /\ dv_calls[1] = 2
  /\ ~dv_unlinkFailed

\* C8 (as stated): switching to a fallback URL opens no new retry budget: a
\* fallback URL is never given retries+1 attempts of its own (retries > 0).
C8_NoFreshBudgetForFallback ==
  \A i \in UrlIdxs :
    (i >= 2 /\ dv_opts.retries >= 1) => dv_calls[i] < dv_opts.retries + 1

\* C8 (amended): every URL of the chain, fallback URLs included, has its own
\* budget of retries+1 attempts: no URL is attempted more often, a fallback
\* URL starts its attempts at zero, and the call fails only after each URL
\* it was given has used all retries+1 attempts.
C8_FreshBudgetPerUrl ==
  /\ \A i \in UrlIdxs : dv_calls[i] <= dv_opts.retries + 1
  /\ dv_pc \in {"fetching", "efDelay", "streaming"}
       => dv_calls[dv_urlIdx] = dv_attempt + 1
  /\ dv_pc = "thrown" =>
       \A i \in UrlIdxs :
         dv_urls[i] = "url" => dv_calls[i] = dv_opts.retries + 1

C8_Witness ==
  /\ dv_pc = "thrown"
  /\ Len(dv_urls) = 2
  /\ dv_opts.retries = 2
  /\ dv_calls = <<3, 3>>

\* C9 (as stated): if the destination file already exists and overwrite is
\* not requested, downloadVideo returns the existing path, sends no request
\* and leaves the file untouched.
C9_ExistingFileShortCircuit ==
  (dv_file0 = "existing" /\ ~dv_opts.overwrite) =>
    /\ dv_requests = 0
    /\ \A i \in UrlIdxs : dv_calls[i] = 0
    /\ dv_file = "existing"
    /\ dv_pc \in {"start", "returned"}

\* C9 (amended): if the destination file already exists, overwrite is not
\* requested, checkExisting is not switched off and the video has a play
\* URL, downloadVideo returns the existing path, sends no request and leaves
\* the file untouched.
C9_ExistingFileShortCircuitWhenChecked ==
  (/\ dv_file0 = "existing"
   /\ ~dv_opts.overwrite
   /\ dv_opts.checkExisting
   /\ dv_urls[1] = "url") =>
    /\ dv_requests = 0
    /\ \A i \in UrlIdxs : dv_calls[i] = 0
    /\ dv_file = "existing"
    /\ dv_pc \in {"start", "returned"}
    /\ dv_urlIdx = 1

C9_Witness ==
  /\ dv_pc = "returned"
  /\ dv_file0 = "existing"
  /\ dv_file = "existing"
  /\ ~dv_opts.overwrite
  /\ dv_opts.checkExisting
  /\ dv_requests = 0
  /\ dv_calls[1] = 0

primaryAndFallback ==
  /\ Len(dv_urls) = 2
  /\ dv_urls[1] = "url" /\ dv_urls[2] = "url"
  /\ dv_calls[1] > 0

\* C16: given a primary URL whose every attempt fails and one fallback URL
\* that succeeds, downloadVideo returns the destination path obtained from
\* the fallback (the file was downloaded from it and is complete), after the
\* primary's budget of retries+1 attempts was spent exactly once and without
\* returning to the primary; the call fails only if the fallback was tried
\* and failed too.
C16_FallbackAfterPrimaryBudget ==
  primaryAndFallback =>
    /\ dv_urlIdx = 2 => dv_calls[1] = dv_opts.retries + 1
    /\ (dv_pc = "returned" /\ dv_urlIdx = 2)
         => (dv_calls[2] >= 1 /\ dv_file = "complete")
    /\ dv_pc = "thrown" => (dv_urlIdx = 2 /\ dv_calls[2] >= 1)

\* the HTTP statuses the error classification calls permanent
PermanentKinds == {"http401", "http403", "http404"}

\* C12: an HTTP 401, 403 or 404 answer is permanent: after one, no further
\* request is sent for the same URL (a second or later request for the
\* current URL always follows a failure of the request before it, whose cause
\* dv_lastFail keeps).
C12_PermanentStatusNotRetried ==
  (dv_pc = "fetching" /\ dv_requests > 1) => dv_lastFail \notin PermanentKinds

\* ========================================================================
\* resolveLink, resolveShortUrl  (src/src/douyin/parser/resolve-links.ts)
\* getLinkType, extractVideoId   (link-patterns, parse-batch.ts:113-222)
\* A URL is a form and the one segment the patterns can capture from it:
\*   standard  https://www.douyin.com/video/<seg>
\*   short     https://v.douyin.com/<seg>/
\*   mobile    https://www.douyin.com/share/video/<seg>
\*   note      https://www.douyin.com/note/<seg>
\*   discover  https://www.douyin.com/discover?modal_id=<seg>
\*   webapp    https://www.douyin.com/webapp/<seg>
\*   iesParam  https://www.iesdouyin.com/share/video/x/?vid=<seg>
\*             (no vid parameter when <seg> is empty)
\*   other     https://example.com/?vid=<seg>   (likewise)
\* A segment is a string over a digit and a letter.
\* ========================================================================
Chars == {"1", "a"}

\* \d
isDigit(c) == c = "1"

Ids == UNION {[1..n -> Chars] : n \in 0..MaxIdLen}

\* match[1] when nothing was captured; JavaScript treats '' alike
NoId == <<>>

Forms == {"standard", "short", "mobile", "note", "discover", "webapp",
          "iesParam", "other"}

Urls == [form : Forms, seg : Ids]

\* null returned by resolveShortUrl
NullUrl == [form |-> "null", seg |-> <<>>]

\* (\d+) at the head of a segment: the longest run of digits it starts with
digitPrefix(seg) ==
  LET n == CHOOSE k \in 0..Len(seg) :
             /\ \A i \in 1..k : isDigit(seg[i])
             /\ (k < Len(seg) => ~isDigit(seg[k + 1]))
  IN SubSeq(seg, 1, n)

\* parse-batch.ts:113-156  DOUYIN_LINK_PATTERNS, in order
DOUYIN_LINK_PATTERNS ==
  << [name |-> "standard",     needsRedirect |-> FALSE],
     [name |-> "short",        needsRedirect |-> TRUE],
     [name |-> "mobile",       needsRedirect |-> TRUE],
     [name |-> "note",         needsRedirect |-> TRUE],
     [name |-> "discover",     needsRedirect |-> TRUE],
     [name |-> "webapp",       needsRedirect |-> TRUE],
     [name |-> "mobile-param", needsRedirect |-> TRUE] >>

\* url.match(pattern)[1] for the pattern of that name, NoId when the pattern
\* does not match: the digit patterns capture (\d+), the short pattern the
\* whole code ([a-zA-Z0-9_-]+), mobile-param the value of vid ([^&]+)
capture(name, u) ==
  CASE name = "standard"     -> IF u.form = "standard" THEN digitPrefix(u.seg)
                                ELSE NoId
    [] name = "short"        -> IF u.form = "short" THEN u.seg ELSE NoId
    [] name = "mobile"       -> IF u.form = "mobile" THEN digitPrefix(u.seg)
                                ELSE NoId
    [] name = "note"         -> IF u.form = "note" THEN digitPrefix(u.seg)
                                ELSE NoId
    [] name = "discover"     -> IF u.form = "discover" THEN digitPrefix(u.seg)
                                ELSE NoId
    [] name = "webapp"       -> IF u.form = "webapp" THEN digitPrefix(u.seg)
                                ELSE NoId
    [] name = "mobile-param" -> IF u.form = "iesParam" THEN u.seg ELSE NoId

\* the patterns that match u, by position
matching(u) ==
  {i \in 1..Len(DOUYIN_LINK_PATTERNS) :
     capture(DOUYIN_LINK_PATTERNS[i].name, u) # NoId}

firstMatching(u) == CHOOSE i \in matching(u) : \A j \in matching(u) : i <= j

\* parse-batch.ts:181-191  getLinkType: the first pattern that matches
hasLinkType(u) == matching(u) # {}

getLinkType(u) == DOUYIN_LINK_PATTERNS[firstMatching(u)]

\* new URL(url).searchParams.get('vid')
vidParam(u) == IF u.form \in {"iesParam", "other"} THEN u.seg ELSE NoId

\* parse-batch.ts:198-222  extractVideoId: the capture of the first pattern
\* that matches, else the vid parameter, else null
extractVideoId(u) ==
  IF matching(u) # {}
    THEN capture(DOUYIN_LINK_PATTERNS[firstMatching(u)].name, u)
    ELSE vidParam(u)

\* Mutant: the standard URL is built on the share path.
createStandardUrl_share(videoId) == [form |-> "mobile", seg |-> videoId]

\* resolve-links.ts:19-21
createStandardUrl(videoId) == [form |-> "standard", seg |-> videoId]

\* resolve-links.ts:58  finalUrl.startsWith('https://www.iesdouyin.com/share/video/')
startsWithIesShare(u) == u.form = "iesParam"

\* resolve-links.ts:117  the type of the result
resultType(standardUrl) ==
  IF hasLinkType(standardUrl) /\ getLinkType(standardUrl).name = "standard"
    THEN "video" ELSE "unknown"

\* resolve-links.ts:121-138  the link is standard already
resolveLink_direct(url) ==
  LET videoId == extractVideoId(url) IN
  IF videoId = NoId THEN NullResult
  ELSE [isNull |-> FALSE, id |-> videoId,
        standardUrl |-> createStandardUrl(videoId), originalUrl |-> url,
        type |-> resultType(createStandardUrl(videoId))]

\* resolve-links.ts:98-119  after resolveShortUrl returned standardUrl
resolveLink_redirected(url, standardUrl) ==
  IF standardUrl = NullUrl THEN NullResult
  ELSE LET videoId == extractVideoId(standardUrl) IN
       IF videoId = NoId THEN NullResult
       ELSE [isNull |-> FALSE, id |-> videoId, standardUrl |-> standardUrl,
             originalUrl |-> url, type |-> resultType(standardUrl)]

\* resolve-links.ts:69-72  catch of resolveShortUrl: logged, null returned
resolveShortUrl_catch == NullUrl

InitResolve ==
  /\ rl_url \in Urls
  /\ rl_retries \in 0..MaxRetries
  /\ rl_pc = "start"
  /\ rl_attempt = 0
  /\ rl_efAttempt = 0
  /\ rl_requests = 0
  /\ rl_finalUrl = NoUrl
  /\ rl_short = NoUrl
  /\ rl_result = NullResult
  /\ wrIdle /\ pbIdle /\ fvIdle /\ dvIdle /\ xlIdle /\ ibIdle /\ dbIdle

\* resolveShortUrl returns short: resolveLink finishes with it
resolveShortUrl_return(short) ==
  /\ rl_short' = short
  /\ rl_result' = resolveLink_redirected(rl_url, short)
  /\ rl_pc' = "returned"

\* resolve-links.ts:87-93  unknown link type: null
resolveLink_unknown ==
  /\ rl_pc = "start"
  /\ ~hasLinkType(rl_url)
  /\ rl_result' = NullResult
  /\ rl_pc' = "returned"
  /\ UNCHANGED <<rl_url, rl_retries, rl_attempt, rl_efAttempt, rl_requests,
                 rl_finalUrl, rl_short>>
  /\ UNCHANGED <<wrVars, pbVars, fvVars, dvVars, xlVars, ibVars, dbVars>>

\* resolve-links.ts:120-139  a link that needs no redirect
resolveLink_standard ==
  /\ rl_pc = "start"
  /\ hasLinkType(rl_url)
  /\ ~getLinkType(rl_url).needsRedirect
  /\ rl_result' = resolveLink_direct(rl_url)
  /\ rl_pc' = "returned"
  /\ UNCHANGED <<rl_url, rl_retries, rl_attempt, rl_efAttempt, rl_requests,
                 rl_finalUrl, rl_short>>
  /\ UNCHANGED <<wrVars, pbVars, fvVars, dvVars, xlVars, ibVars, dbVars>>

\* resolve-links.ts:96-98, 39-45  a link that needs a redirect:
\* resolveShortUrl, withRetry and enhancedFetch are entered, the first
\* request is sent
resolveLink_follow ==
  /\ rl_pc = "start"
  /\ hasLinkType(rl_url)
  /\ getLinkType(rl_url).needsRedirect
  /\ rl_attempt' = 0
  /\ rl_efAttempt' = 1
  /\ rl_requests' = rl_requests + 1
  /\ rl_pc' = "fetching"
  /\ UNCHANGED <<rl_url, rl_retries, rl_finalUrl, rl_short, rl_result>>
  /\ UNCHANGED <<wrVars, pbVars, fvVars, dvVars, xlVars, ibVars, dbVars>>

\* resolve-links.ts:46-68  the request succeeded with final URL response.url:
\* a standard URL when it yields an ID; a second request for shortUrl when it
\* is an iesdouyin share URL without one; null otherwise
resolveShortUrl_fetched ==
  /\ rl_pc = "fetching"
  /\ \E finalUrl \in Urls :
       /\ rl_finalUrl' = finalUrl
       /\ IF extractVideoId(finalUrl) # NoId
            THEN /\ resolveShortUrl_return(
                      createStandardUrl(extractVideoId(finalUrl)))
                 /\ UNCHANGED <<rl_efAttempt, rl_requests>>
          ELSE IF startsWithIesShare(finalUrl)
            THEN /\ rl_efAttempt' = 1
                 /\ rl_requests' = rl_requests + 1
                 /\ rl_pc' = "fetching2"
                 /\ UNCHANGED <<rl_short, rl_result>>
          ELSE /\ resolveShortUrl_return(NullUrl)
               /\ UNCHANGED <<rl_efAttempt, rl_requests>>
  /\ UNCHANGED <<rl_url, rl_retries, rl_attempt>>
  /\ UNCHANGED <<wrVars, pbVars, fvVars, dvVars, xlVars, ibVars, dbVars>>

\* fetch.ts:99-121  a request failed and enhancedFetch has attempts left
resolve_enhancedFetch_retry ==
  /\ rl_pc \in {"fetching", "fetching2"}
  /\ ~(rl_efAttempt > FetchRetries)
  /\ rl_pc' = IF rl_pc = "fetching" THEN "efDelay" ELSE "efDelay2"
  /\ UNCHANGED <<rl_url, rl_retries, rl_attempt, rl_efAttempt, rl_requests,
                 rl_finalUrl, rl_short, rl_result>>
  /\ UNCHANGED <<wrVars, pbVars, fvVars, dvVars, xlVars, ibVars, dbVars>>

\* fetch.ts:121, 63-75  the backoff elapses, the request is sent again
resolve_enhancedFetch_delayElapsed ==
  /\ rl_pc \in {"efDelay", "efDelay2"}
  /\ rl_efAttempt <= FetchRetries
  /\ rl_efAttempt' = rl_efAttempt + 1
  /\ rl_requests' = rl_requests + 1
  /\ rl_pc' = IF rl_pc = "efDelay" THEN "fetching" ELSE "fetching2"
  /\ UNCHANGED <<rl_url, rl_retries, rl_attempt, rl_finalUrl, rl_short,
                 rl_result>>
  /\ UNCHANGED <<wrVars, pbVars, fvVars, dvVars, xlVars, ibVars, dbVars>>

\* fetch.ts:113-116, retry.ts:83-109, resolve-links.ts:69-72  enhancedFetch
\* gives up inside withRetry (default shouldRetry: every error): another
\* attempt after a delay, or the throw that resolveShortUrl catches
resolveShortUrl_fetchFailed ==
  /\ rl_pc = "fetching"
  /\ rl_efAttempt > FetchRetries
  /\ LET c == withRetryCatch(rl_attempt, rl_retries, TRUE) IN
       /\ rl_attempt' = c.attempt
       /\ IF c.next = "delay"
            THEN /\ rl_pc' = "retryDelay"
                 /\ UNCHANGED <<rl_short, rl_result>>
            ELSE resolveShortUrl_return(resolveShortUrl_catch)
  /\ UNCHANGED <<rl_url, rl_retries, rl_efAttempt, rl_requests, rl_finalUrl>>
  /\ UNCHANGED <<wrVars, pbVars, fvVars, dvVars, xlVars, ibVars, dbVars>>

\* retry.ts:108, 79-82  withRetry's delay elapses: enhancedFetch is called again
resolveShortUrl_retry ==
  /\ rl_pc = "retryDelay"
  /\ rl_attempt <= rl_retries
  /\ rl_efAttempt' = 1
  /\ rl_requests' = rl_requests + 1
  /\ rl_pc' = "fetching"
  /\ UNCHANGED <<rl_url, rl_retries, rl_attempt, rl_finalUrl, rl_short,
                 rl_result>>
  /\ UNCHANGED <<wrVars, pbVars, fvVars, dvVars, xlVars, ibVars, dbVars>>

\* resolve-links.ts:59-65  the second request succeeded: its response.url is
\* returned as it is
resolveShortUrl_fetchedAgain ==
  /\ rl_pc = "fetching2"
  /\ \E url2 \in Urls : resolveShortUrl_return(url2)
  /\ UNCHANGED <<rl_url, rl_retries, rl_attempt, rl_efAttempt, rl_requests,
                 rl_finalUrl>>
  /\ UNCHANGED <<wrVars, pbVars, fvVars, dvVars, xlVars, ibVars, dbVars>>

\* fetch.ts:113-116, resolve-links.ts:69-72  the second enhancedFetch gives
\* up: resolveShortUrl catches
resolveShortUrl_fetchAgainFailed ==
  /\ rl_pc = "fetching2"
  /\ rl_efAttempt > FetchRetries
  /\ resolveShortUrl_return(resolveShortUrl_catch)
  /\ UNCHANGED <<rl_url, rl_retries, rl_attempt, rl_efAttempt, rl_requests,
                 rl_finalUrl>>
  /\ UNCHANGED <<wrVars, pbVars, fvVars, dvVars, xlVars, ibVars, dbVars>>

NextResolve ==
  \/ resolveLink_unknown
  \/ resolveLink_standard
  \/ resolveLink_follow
  \/ resolveShortUrl_fetched
  \/ resolve_enhancedFetch_retry
  \/ resolve_enhancedFetch_delayElapsed
  \/ resolveShortUrl_fetchFailed
  \/ resolveShortUrl_retry
  \/ resolveShortUrl_fetchedAgain
  \/ resolveShortUrl_fetchAgainFailed

SpecResolve == InitResolve /\ [][NextResolve]_vars

\* C13: every non-null ParseResult of resolveLink has
\* standardUrl = "https://www.douyin.com/video/" + id, for direct and for
\* redirected inputs alike.
C13_StandardUrlCanonical ==
  (rl_pc = "returned" /\ rl_result # NullResult)
  => rl_result.standardUrl = createStandardUrl(rl_result.id)

\* a canonical URL: https://www.douyin.com/video/ followed by digits only
isCanonical(u) ==
  /\ u.form = "standard"
  /\ u.seg # <<>>
  /\ \A i \in 1..Len(u.seg) : isDigit(u.seg[i])

\* C24: for every canonical URL u (https://www.douyin.com/video/<digits>),
\* resolveLink(u) returns a result whose standardUrl equals u.
C24_CanonicalIsFixedPoint ==
  (rl_pc = "returned" /\ isCanonical(rl_url))
  => (rl_result # NullResult /\ rl_result.standardUrl = rl_url)

C24_Witness ==
  /\ rl_pc = "returned"
  /\ rl_url = [form |-> "standard", seg |-> <<"1", "1">>]
  /\ rl_result # NullResult
  /\ rl_result.standardUrl = rl_url
  /\ rl_requests = 0

\* resolveShortUrl was called and has returned
shortReturned == rl_pc = "returned" /\ rl_short # NoUrl

\* resolveShortUrl failed: no request succeeded within the retries, or the
\* final URL of the request that succeeded yields no video ID
shortFailed ==
  \/ rl_finalUrl = NoUrl
  \/ extractVideoId(rl_finalUrl) = NoId

\* C18: resolveShortUrl and resolveLink never throw; every failure (unknown
\* link type, network failure after all retries, final URL without an
\* extractable ID) is returned as null.
C18_FailuresReturnedAsNull ==
  /\ rl_pc # "thrown"
  /\ (rl_pc = "returned" /\ ~hasLinkType(rl_url)) => rl_result = NullResult
  /\ (shortReturned /\ shortFailed)
       => (rl_short = NullUrl /\ rl_result = NullResult)

\* C19: once a request of resolveShortUrl has succeeded and its final URL
\* yields no video ID, resolveShortUrl returns null and sends no further
\* request for the short URL.
C19_NoRequestAfterUnresolvableUrl ==
  (rl_finalUrl # NoUrl /\ extractVideoId(rl_finalUrl) = NoId)
  => (rl_pc = "returned" /\ rl_short = NullUrl)

\* C26: a call configured with retries = r sends at most r+1 HTTP requests
\* to one URL: resolving a short link with retries = r, and downloading one
\* source URL with retries = r, never issue more than r+1 requests to it.
C26_RequestsWithinRetries ==
  /\ rl_requests <= rl_retries + 1
  /\ dv_requests <= dv_opts.retries + 1

\* ========================================================================
\* extractDouyinLinks
\*   (a) src/src/douyin/parser/extractDouyinLinks.ts:44-62: one pass over
\*       the text per pattern of PATTERNS
\*   (b) extract-links (parse-batch.ts:517-538): one pass with the combined
\*       pattern of DOUYIN_LINK_PATTERNS, duplicates removed by a Set
\* A text is a sequence of lines; a line holds one URL of the forms above (a
\* `.` of a pattern does not cross a line break).
\* ========================================================================
\* the lines of a text: a URL with a one-character segment
Lines == {u \in Urls : Len(u.seg) = 1}

Texts == UNION {[1..n -> Lines] : n \in 0..MaxLines}

\* extractDouyinLinks.ts:13-33  PATTERNS, in order (no webapp pattern)
PATTERNS == <<"standard", "short", "mobile", "note", "discover", "mobile-param">>

\* the text a pattern matches in a line: the URL up to the end of the capture
matchOf(name, line) == [form |-> line.form, seg |-> capture(name, line)]

\* text.match(pattern) with the g flag: every match, in text order
RECURSIVE matchAll(_, _)
matchAll(name, text) ==
  IF text = <<>> THEN <<>>
  ELSE (IF capture(name, Head(text)) # NoId
          THEN <<matchOf(name, Head(text))>> ELSE <<>>)
       \o matchAll(name, Tail(text))

\* extractDouyinLinks.ts:52-57  if (!results.includes(match)) results.push(match)
\* (and Array.from(new Set(matches)) of parse-batch.ts:532)
RECURSIVE pushNew(_, _)
pushNew(results, matches) ==
  IF matches = <<>> THEN results
  ELSE pushNew(IF \E k \in 1..Len(results) : results[k] = Head(matches)
                 THEN results ELSE Append(results, Head(matches)),
               Tail(matches))

\* parse-batch.ts:162-174, 525-526  text.match(createCombinedPattern()): in
\* each line the alternative that matches first, in text order
RECURSIVE matchCombined(_)
matchCombined(text) ==
  IF text = <<>> THEN <<>>
  ELSE (IF hasLinkType(Head(text))
          THEN <<matchOf(getLinkType(Head(text)).name, Head(text))>>
          ELSE <<>>)
       \o matchCombined(Tail(text))

InitExtract ==
  /\ xl_text \in Texts
  /\ xl_i = 1
  /\ xl_results = <<>>
  /\ xl_pc = "loop"
  /\ xl_uniqueUrls = <<>>
  /\ xl_combined = FALSE
  /\ wrIdle /\ pbIdle /\ fvIdle /\ dvIdle /\ rlIdle /\ ibIdle /\ dbIdle

\* extractDouyinLinks.ts:45  if (!text) return []
extractDouyinLinks_emptyText ==
  /\ xl_pc = "loop"
  /\ xl_text = <<>>
  /\ xl_pc' = "returned"
  /\ UNCHANGED <<xl_text, xl_i, xl_results, xl_uniqueUrls, xl_combined>>
  /\ UNCHANGED <<wrVars, pbVars, fvVars, dvVars, rlVars, ibVars, dbVars>>

\* extractDouyinLinks.ts:49-59  one turn of the loop over PATTERNS
extractDouyinLinks_pattern ==
  /\ xl_pc = "loop"
  /\ xl_text # <<>>
  /\ xl_i <= Len(PATTERNS)
  /\ xl_results' = pushNew(xl_results, matchAll(PATTERNS[xl_i], xl_text))
  /\ xl_i' = xl_i + 1
  /\ UNCHANGED <<xl_text, xl_pc, xl_uniqueUrls, xl_combined>>
  /\ UNCHANGED <<wrVars, pbVars, fvVars, dvVars, rlVars, ibVars, dbVars>>

\* extractDouyinLinks.ts:61  return results
extractDouyinLinks_return ==
  /\ xl_pc = "loop"
  /\ xl_text # <<>>
  /\ xl_i > Len(PATTERNS)
  /\ xl_pc' = "returned"
  /\ UNCHANGED <<xl_text, xl_i, xl_results, xl_uniqueUrls, xl_combined>>
  /\ UNCHANGED <<wrVars, pbVars, fvVars, dvVars, rlVars, ibVars, dbVars>>

\* parse-batch.ts:517-538  the extract-links implementation, as a whole
extractLinks_combined ==
  /\ ~xl_combined
  /\ xl_uniqueUrls' = pushNew(<<>>, matchCombined(xl_text))
  /\ xl_combined' = TRUE
  /\ UNCHANGED <<xl_text, xl_i, xl_results, xl_pc>>
  /\ UNCHANGED <<wrVars, pbVars, fvVars, dvVars, rlVars, ibVars, dbVars>>

NextExtract ==
  \/ extractDouyinLinks_emptyText
  \/ extractDouyinLinks_pattern
  \/ extractDouyinLinks_return
  \/ extractLinks_combined

SpecExtract == InitExtract /\ [][NextExtract]_vars

\* the links PATTERNS match in the text, and the line of the first occurrence
matchedByPatterns ==
  {matchOf(PATTERNS[p], xl_text[k]) :
     <<p, k>> \in {pk \in (1..Len(PATTERNS)) \X (1..Len(xl_text)) :
                     capture(PATTERNS[pk[1]], xl_text[pk[2]]) # NoId}}

firstByPatterns(m) ==
  CHOOSE k \in 1..Len(xl_text) :
    /\ \E p \in 1..Len(PATTERNS) :
         capture(PATTERNS[p], xl_text[k]) # NoId
           /\ matchOf(PATTERNS[p], xl_text[k]) = m
    /\ \A j \in 1..(k - 1) : \A p \in 1..Len(PATTERNS) :
         ~(capture(PATTERNS[p], xl_text[j]) # NoId
             /\ matchOf(PATTERNS[p], xl_text[j]) = m)

\* the same for the combined pattern
matchedByCombined == SeqToSet(matchCombined(xl_text))

firstByCombined(m) ==
  CHOOSE k \in 1..Len(xl_text) :
    /\ hasLinkType(xl_text[k])
    /\ matchOf(getLinkType(xl_text[k]).name, xl_text[k]) = m
    /\ \A j \in 1..(k - 1) :
         ~(hasLinkType(xl_text[j])
             /\ matchOf(getLinkType(xl_text[j]).name, xl_text[j]) = m)

\* C20: for every text, extractDouyinLinks returns each matched link exactly
\* once, ordered by the position of its first occurrence in the text (both
\* implementations).
C20_UniqueInFirstSeenOrder ==
  /\ xl_pc = "returned" =>
       /\ SeqToSet(xl_results) = matchedByPatterns
       /\ \A i, j \in 1..Len(xl_results) :
            i < j => /\ xl_results[i] # xl_results[j]
                     /\ firstByPatterns(xl_results[i])
                          < firstByPatterns(xl_results[j])
  /\ xl_combined =>
       /\ SeqToSet(xl_uniqueUrls) = matchedByCombined
       /\ \A i, j \in 1..Len(xl_uniqueUrls) :
            i < j => /\ xl_uniqueUrls[i] # xl_uniqueUrls[j]
                     /\ firstByCombined(xl_uniqueUrls[i])
                          < firstByCombined(xl_uniqueUrls[j])

\* ========================================================================
\* The info batch processor  (src/src/douyin/info/user.ts:324-381, called by
\* fetchVideosInfoUrls, part_006:62-87) and fetchVideoDetail
\* (src/src/douyin/info/fetch-video-detail.ts:20-257)
\* ========================================================================

\* user.ts:353  { retries: 2 }
InfoRetries == 2

\* how one run of fetchVideoDetail goes: the details are extracted, the page
\* holds no play URL (fetch-video-detail.ts:215), the wait for the video
\* element times out (:43-74), page.goto or page.evaluate throws (:33, :250)
RawOutcomes == {"info", "noPlayUrl", "waitTimeout", "navigationError"}

\* fetch-video-detail.ts:59-74, 215-231, 250-255  what fetchVideoDetail gives
\* its caller: every failure is caught (or found) inside and answered by null
fetchVideoDetail_catch(raw) ==
  IF raw = "info" THEN "info" ELSE "null"

\* Mutant: the loop does not await the extraction it started.
afterStart_noAwait(index) == [pc |-> "loop", index |-> index + 1]

\* user.ts:349-353  const result = await withRetry(...): the loop stands
\* still until the extraction of the URL in turn, retries included, is over
afterStart(index) == [pc |-> "awaiting", index |-> index]

\* user.ts:376  results.filter(result => result !== null)
RECURSIVE validResults(_)
validResults(rs) ==
  IF rs = <<>> THEN <<>>
  ELSE IF Head(rs) = "null" THEN validResults(Tail(rs))
  ELSE <<Head(rs)>> \o validResults(Tail(rs))

InitInfo ==
  /\ ib_total \in 0..MaxInfoUrls
  /\ ib_concurrency \in 0..MaxConcurrency
  /\ ib_onProgress \in BOOLEAN
  /\ ib_pc = "loop"
  /\ ib_index = 1
  /\ ib_attempt = 0
  /\ ib_running = {}
  /\ ib_calls = [i \in 1..ib_total |-> 0]
  /\ ib_results = <<>>
  /\ ib_progress = <<>>
  /\ ib_out = <<>>
  /\ wrIdle /\ pbIdle /\ fvIdle /\ dvIdle /\ rlIdle /\ xlIdle /\ dbIdle

\* user.ts:333-336  no URL: the call returns [] at once
info_processBatch_empty ==
  /\ ib_pc = "loop"
  /\ ib_total = 0
  /\ ib_pc' = "returned"
  /\ ib_out' = <<>>
  /\ UNCHANGED <<ib_total, ib_concurrency, ib_onProgress, ib_index, ib_attempt,
                 ib_running, ib_calls, ib_results, ib_progress>>
  /\ UNCHANGED <<wrVars, pbVars, fvVars, dvVars, rlVars, xlVars, dbVars>>

\* user.ts:344-353  the loop takes the URL in turn and withRetry calls
\* fetchVideoDetail(page, url) for the first time
info_processBatch_start ==
  /\ ib_pc = "loop"
  /\ ib_index <= ib_total
  /\ ib_index \notin ib_running
  /\ ib_running' = ib_running \cup {ib_index}
  /\ ib_calls' = [ib_calls EXCEPT ![ib_index] = @ + 1]
  /\ ib_attempt' = 0
  /\ ib_pc' = afterStart(ib_index).pc
  /\ ib_index' = afterStart(ib_index).index
  /\ UNCHANGED <<ib_total, ib_concurrency, ib_onProgress, ib_results,
                 ib_progress, ib_out>>
  /\ UNCHANGED <<wrVars, pbVars, fvVars, dvVars, rlVars, xlVars, dbVars>>

\* user.ts:355-373  the URL is done: its result (null after a throw of
\* withRetry) is pushed, onProgress is told, the loop moves on
info_settled(i, result) ==
  /\ ib_results' = Append(ib_results, result)
  /\ ib_running' = ib_running \ {i}
  /\ ib_progress' = IF ib_onProgress THEN Append(ib_progress, ib_index)
                                     ELSE ib_progress
  /\ ib_attempt' = 0
  /\ ib_calls' = ib_calls
  /\ IF ib_pc = "awaiting"
       THEN ib_pc' = "loop" /\ ib_index' = ib_index + 1
       ELSE UNCHANGED <<ib_pc, ib_index>>

\* fetch-video-detail.ts:20-257 under retry.ts:79-109  one run of
\* fetchVideoDetail ends.  A returned value, null included, resolves
\* withRetry; a throw goes through the catch of withRetry, which calls
\* fetchVideoDetail again after the delay or gives up.
info_fetchVideoDetail_settle ==
  /\ ib_pc \in {"loop", "awaiting"}
  /\ \E i \in ib_running, raw \in RawOutcomes :
       LET out == fetchVideoDetail_catch(raw)
           c   == withRetryCatch(ib_attempt, InfoRetries, TRUE)
       IN IF out = "thrown"
            THEN IF c.next = "delay"
                   THEN /\ ib_attempt' = c.attempt
                        /\ ib_calls' = [ib_calls EXCEPT ![i] = @ + 1]
                        /\ UNCHANGED <<ib_pc, ib_index, ib_running, ib_results,
                                       ib_progress>>
                   ELSE info_settled(i, "null")
            ELSE info_settled(i, out)
  /\ UNCHANGED <<ib_total, ib_concurrency, ib_onProgress, ib_out>>
  /\ UNCHANGED <<wrVars, pbVars, fvVars, dvVars, rlVars, xlVars, dbVars>>

\* user.ts:375-381  the loop is over: the null results are filtered out
info_processBatch_return ==
  /\ ib_pc = "loop"
  /\ ib_total > 0
  /\ ib_index > ib_total
  /\ ib_running = {}
  /\ ib_pc' = "returned"
  /\ ib_out' = validResults(ib_results)
  /\ UNCHANGED <<ib_total, ib_concurrency, ib_onProgress, ib_index, ib_attempt,
                 ib_running, ib_calls, ib_results, ib_progress>>
  /\ UNCHANGED <<wrVars, pbVars, fvVars, dvVars, rlVars, xlVars, dbVars>>

NextInfo ==
  \/ info_processBatch_empty
  \/ info_processBatch_start
  \/ info_fetchVideoDetail_settle
  \/ info_processBatch_return

SpecInfo == InitInfo /\ [][NextInfo]_vars

\* C23: no two detail extractions ever run concurrently on the page: the
\* extraction of URL i+1 starts only after the extraction of URL i, retries
\* included, has finished (its result is in results), whatever concurrency
\* option the caller passes.
C23_ExtractionsSequential ==
  /\ Cardinality(ib_running) <= 1
  /\ \A i \in ib_running : Len(ib_results) = i - 1
  /\ \A i \in 1..ib_total : ib_calls[i] > 0 => Len(ib_results) >= i - 1

C23_Witness ==
  /\ ib_concurrency = 2
  /\ ib_running = {2}
  /\ Len(ib_results) = 1
  /\ ib_calls[1] = 1

\* C30: in the info batch processor a video whose detail extraction fails
\* is attempted again, up to 2 retries (3 attempts in total), before it is
\* dropped from the results.
C30_FailedExtractionRetried ==
  \A i \in 1..Len(ib_results) :
    (ib_pc # "idle" /\ ib_results[i] = "null") => ib_calls[i] = InfoRetries + 1

\* ========================================================================
\* downloadBatch  (download-manager.ts, src/unnamed/part_008:439-548): the
\* videos go through processBatch (retry.ts:147-197, retries 0), each worker
\* runs downloadVideo (part_008:39-221) and downloadFile (part_011:32-149)
\* on the file system the workers share
\* ========================================================================
Videos == 1..Len(db_w)

\* the workers processBatch has started and not yet counted as completed
inPool == {i \in Videos : db_w[i] \in {"writing", "retryDelay", "settled"}}

\* part_008:454-470  updateOverallProgress: the `current` it passes to
\* onBatchProgress is progressMap.size
updateOverallProgress(progressMap) == Cardinality(progressMap)

\* part_008:484-489  downloadVideo(videoInfo, outputPath, {...}): the fourth
\* argument downloadUrls is not passed, whatever cdnPlayUrls the video has
fallbackUrls(cdnPlayUrls) == 0

\* the value onBatchProgress is called with, when it is given
reported(current) ==
  IF db_opts.onBatchProgress THEN current ELSE db_current

InitDownloadBatch ==
  /\ db_pc = "running"
  /\ db_opts \in [concurrency : 1..MaxConcurrency, retries : 0..MaxBatchRetries,
                  checkExisting : BOOLEAN, overwrite : BOOLEAN,
                  onBatchProgress : BOOLEAN]
  /\ \E n \in 1..MaxVideos :
       /\ db_path \in [1..n -> 1..MaxPaths]
       /\ db_cdn \in [1..n -> 0..MaxCdn]
       /\ db_w = [i \in 1..n |-> "queued"]
       /\ db_attempt = [i \in 1..n |-> 0]
       /\ db_tried = [i \in 1..n |-> 0]
       /\ db_result = [i \in 1..n |-> "none"]
  /\ db_file \in [1..MaxPaths -> {"absent", "complete"}]
  /\ db_progressMap = {}
  /\ db_completed = 0
  /\ db_current = 0
  /\ db_out = <<>>
  /\ wrIdle /\ pbIdle /\ fvIdle /\ dvIdle /\ rlIdle /\ xlIdle /\ ibIdle

\* part_008:497-508  the callback after downloadVideo returned filePath:
\* progressMap.set(index, 100), updateOverallProgress(), success result
callback_success(i) ==
  /\ db_progressMap' = db_progressMap \cup {i}
  /\ db_current' = reported(updateOverallProgress(db_progressMap \cup {i}))
  /\ db_result' = [db_result EXCEPT ![i] = "success"]
  /\ db_w' = [db_w EXCEPT ![i] = "settled"]

\* retry.ts:160-173, part_008:476-489, 39-131, part_011:47-58  the pool starts
\* the next video in order: downloadVideo returns the path at once when the
\* file is there and is not to be overwritten, else downloadFile opens the
\* write stream on it and sends the request
downloadBatch_start ==
  /\ db_pc = "running"
  /\ \E i \in Videos :
       /\ db_w[i] = "queued"
       /\ \A j \in 1..(i - 1) : db_w[j] # "queued"
       /\ hasCapacity(Cardinality(inPool), db_opts.concurrency)
       /\ IF returnsExisting(db_opts.checkExisting, exists(db_file[db_path[i]]),
                             db_opts.overwrite)
            THEN /\ callback_success(i)
                 /\ UNCHANGED <<db_file, db_tried>>
            ELSE /\ db_file' = [db_file EXCEPT ![db_path[i]] = "partial"]
                 /\ db_tried' = [db_tried EXCEPT ![i] = 1]
                 /\ db_w' = [db_w EXCEPT ![i] = "writing"]
                 /\ UNCHANGED <<db_progressMap, db_current, db_result>>
  /\ UNCHANGED <<db_pc, db_opts, db_path, db_cdn, db_attempt, db_completed,
                 db_out>>
  /\ UNCHANGED <<wrVars, pbVars, fvVars, dvVars, rlVars, xlVars, ibVars>>

\* part_011:83-123, part_008:151-158, 479-482  a chunk is written:
\* onFileProgress(progress) sets progressMap[index], updateOverallProgress()
downloadBatch_onProgress ==
  /\ db_pc = "running"
  /\ \E i \in Videos :
       /\ db_w[i] = "writing"
       /\ db_progressMap' = db_progressMap \cup {i}
       /\ db_current' = reported(updateOverallProgress(db_progressMap \cup {i}))
  /\ UNCHANGED <<db_pc, db_opts, db_path, db_cdn, db_file, db_w, db_attempt,
                 db_tried, db_result, db_completed, db_out>>
  /\ UNCHANGED <<wrVars, pbVars, fvVars, dvVars, rlVars, xlVars, ibVars>>

\* part_011:124-126, part_008:181-183, 497-508  the last chunk is written and
\* the stream closed: the file is whole unless another worker is still
\* writing to the same path; downloadVideo returns the path
downloadBatch_downloaded ==
  /\ db_pc = "running"
  /\ \E i \in Videos :
       /\ db_w[i] = "writing"
       /\ db_file' = [db_file EXCEPT ![db_path[i]] =
            IF \E j \in Videos \ {i} :
                 db_w[j] = "writing" /\ db_path[j] = db_path[i]
              THEN @ ELSE "complete"]
       /\ callback_success(i)
  /\ UNCHANGED <<db_pc, db_opts, db_path, db_cdn, db_attempt, db_tried,
                 db_completed, db_out>>
  /\ UNCHANGED <<wrVars, pbVars, fvVars, dvVars, rlVars, xlVars, ibVars>>

\* part_011:127-147, part_008:146-219, 509-521  an attempt fails: downloadFile
\* deletes the file at the path and throws; withRetry waits for another
\* attempt, or downloadVideo deletes again, finds no download URL left to
\* recurse on and throws, and the callback answers a failure result
downloadBatch_attemptFailed ==
  /\ db_pc = "running"
  /\ \E i \in Videos :
       LET c == withRetryCatch(db_attempt[i], db_opts.retries,
                               dvShouldRetry(FALSE, TRUE))
           f == downloadFile_cleanup(db_file[db_path[i]], TRUE)
       IN /\ db_w[i] = "writing"
          /\ db_attempt' = [db_attempt EXCEPT ![i] = c.attempt]
          /\ IF c.next = "delay"
               THEN /\ db_file' = [db_file EXCEPT ![db_path[i]] = f]
                    /\ db_w' = [db_w EXCEPT ![i] = "retryDelay"]
                    /\ UNCHANGED <<db_result, db_tried>>
               ELSE /\ db_file' = [db_file EXCEPT ![db_path[i]] =
                                     downloadVideo_cleanup(f, TRUE, TRUE)]
                    /\ db_tried' = [db_tried EXCEPT ![i] =
                                      @ + fallbackUrls(db_cdn[i])]
                    /\ db_result' = [db_result EXCEPT ![i] = "failed"]
                    /\ db_w' = [db_w EXCEPT ![i] = "settled"]
  /\ UNCHANGED <<db_pc, db_opts, db_path, db_cdn, db_progressMap, db_completed,
                 db_current, db_out>>
  /\ UNCHANGED <<wrVars, pbVars, fvVars, dvVars, rlVars, xlVars, ibVars>>

\* retry.ts:79-82 after the delay, part_011:47-58  the next attempt opens the
\* write stream on the path again
downloadBatch_retry ==
  /\ db_pc = "running"
  /\ \E i \in Videos :
       /\ db_w[i] = "retryDelay"
       /\ db_file' = [db_file EXCEPT ![db_path[i]] = "partial"]
       /\ db_w' = [db_w EXCEPT ![i] = "writing"]
  /\ UNCHANGED <<db_pc, db_opts, db_path, db_cdn, db_attempt, db_tried,
                 db_result, db_progressMap, db_completed, db_current, db_out>>
  /\ UNCHANGED <<wrVars, pbVars, fvVars, dvVars, rlVars, xlVars, ibVars>>

\* retry.ts:171-179, part_008:517-530  the callback's promise has resolved:
\* completed++ and onProgress(completed, total), which calls
\* onBatchProgress(current = completed, ...)
downloadBatch_completed ==
  /\ db_pc = "running"
  /\ \E i \in Videos :
       /\ db_w[i] = "settled"
       /\ db_w' = [db_w EXCEPT ![i] = "done"]
       /\ db_completed' = onCompleted(db_completed)
       /\ db_current' = reported(onCompleted(db_completed))
  /\ UNCHANGED <<db_pc, db_opts, db_path, db_cdn, db_file, db_attempt, db_tried,
                 db_result, db_progressMap, db_out>>
  /\ UNCHANGED <<wrVars, pbVars, fvVars, dvVars, rlVars, xlVars, ibVars>>

\* part_008:533-548  every video is through: the results are returned
downloadBatch_return ==
  /\ db_pc = "running"
  /\ \A i \in Videos : db_w[i] = "done"
  /\ db_pc' = "returned"
  /\ db_out' = db_result
  /\ UNCHANGED <<db_opts, db_path, db_cdn, db_file, db_w, db_attempt, db_tried,
                 db_result, db_progressMap, db_completed, db_current>>
  /\ UNCHANGED <<wrVars, pbVars, fvVars, dvVars, rlVars, xlVars, ibVars>>

NextDownloadBatch ==
  \/ downloadBatch_start
  \/ downloadBatch_onProgress
  \/ downloadBatch_downloaded
  \/ downloadBatch_attemptFailed
  \/ downloadBatch_retry
  \/ downloadBatch_completed
  \/ downloadBatch_return

SpecDownloadBatch == InitDownloadBatch /\ [][NextDownloadBatch]_vars

\* C25: when downloadBatch returns, every result with success = true names
\* a filePath at which a completely downloaded file exists, also when two
\* videos of the batch resolve to the same path and are downloaded
\* concurrently.
C25_SuccessNamesCompleteFile ==
  db_pc = "returned" =>
    \A i \in 1..Len(db_out) :
      db_out[i] = "success" => db_file[db_path[i]] = "complete"

\* C27: when a video's videoPlayUrl fails terminally, downloadBatch tries the
\* video's cdnPlayUrls in order as fallback sources before it reports that
\* video as failed.
C27_CdnUrlsTriedBeforeFailure ==
  \A i \in 1..Len(db_result) :
    db_result[i] = "failed" => db_tried[i] = 1 + db_cdn[i]

\* C29: across one downloadBatch run the `current` argument passed to
\* onBatchProgress never decreases from one call to the next.
C29_CurrentNeverDecreases == [][db_current' >= db_current]_vars

====
